---- MODULE Spec2Model ----
(***************************************************************************)
(* Model of the bfg9000 copy-trading engine: the reconnecting stream       *)
(* client (src/ws_listner.rs), the per-event venue pipelines it spawns    *)
(* (PumpFunTxSend / RaydiumMemeTxSend ::compose_and_send) and the smart    *)
(* submitter (SendSmartTx::bfg9000_send_smart_tx in src/bot/tx_common.rs). *)
(*                                                                         *)
(* Time is counted in seconds and advances in steps of POLL_INTERVAL, the  *)
(* shortest duration of the program; every sleep and timeout of the code   *)
(* is a countdown that Tick decrements.                                    *)
(***************************************************************************)
EXTENDS Integers, Sequences, FiniteSets, TLC

\* ------------------------------------------------------------------------
\* Bounds of the model
\* ------------------------------------------------------------------------
MaxEvents == 1
MaxFrames == 2
MaxConns == 2
MaxHeight == 2
ValidWindow == 1
MaxInstr == 2
NumPrices == 2

\* ------------------------------------------------------------------------
\* Program constants
\* ------------------------------------------------------------------------
\* tx_common.rs:274  let timeout = Duration::from_secs(60)
POLL_TIMEOUT == 60
\* tx_common.rs:275  let interval = Duration::from_secs(5)
POLL_INTERVAL == 5
\* tx_common.rs:98   let tip_amount = 10000
TIP_AMOUNT == 10000
\* ws_listner.rs:76  tokio::time::sleep(Duration::from_secs(10))
RECONNECT_BACKOFF == 10
\* ws_listner.rs:96  tokio::time::timeout(Duration::from_secs(20), ...)
READ_IDLE_TIMEOUT == 20
\* constants.rs:35
DEFAULT_COMPUTE_UNIT_LIMIT == 100000

\* ------------------------------------------------------------------------
\* Tasks: every valid text frame spawns two detached tasks, one per venue.
\* Event e owns task 2e-1 (Pump.fun) and task 2e (Raydium).
\* ------------------------------------------------------------------------
Tasks == 1..(2 * MaxEvents)
Venue(t) == IF t % 2 = 1 THEN "pump_fun" ELSE "raydium"
EventOf(t) == (t + 1) \div 2
Sibling(t) == IF t % 2 = 1 THEN t + 1 ELSE t - 1

Min(a, b) == IF a < b THEN a ELSE b
Max(a, b) == IF a > b THEN a ELSE b

VARIABLES
    \* --- stream client (ws_listner.rs main) ---
    clientState,    \* position of main in the reconnect loop
    backoffLeft,    \* seconds left of the sleep at ws_listner.rs:76
    idleLeft,       \* seconds left of the 20 s read timeout
    sinceError,     \* seconds since the last session-ending error (saturates)
    conn,           \* number of the current connection (0: none yet)
    subscribedConn, \* connection on which subscribe_raydium last succeeded
    closeSentOn,    \* connections on which send_close was called
    lastEvent,      \* outcome of the last stream step
    framesRead,     \* frames returned by receive_frame so far
    spawned,        \* text frames dispatched so far (two tasks each)
    \* --- the shared Helius handle ---
    holder,         \* task holding the Mutex<Helius> guard, 0 when free
    height,         \* the chain's current block height
    \* --- per task ---
    pc,             \* position of the task
    outcome,        \* result of the task once done
    supplied,       \* the instruction list as the caller passed it
    instructions,   \* the `instructions` vector of bfg9000_send_smart_tx
    units,          \* the `units` argument
    blockhash,      \* recent_blockhash, <<>> before it is fetched
    lastValid,      \* last_valid_block_height
    draftTx,        \* the draft transaction, <<>> before it is built
    feeReply,       \* reply of the priority-fee service, <<>> before
    finalTx,        \* the final transaction, <<>> before it is built
    bundlesSent,    \* bundles this task handed to the relay
    bundleId,       \* the bundle id the relay returned, <<>> before
    statusReply,    \* the relay's last answer to get_bundle_statuses
    elapsed,        \* start.elapsed(), saturating at POLL_TIMEOUT
    sleepLeft,      \* seconds left of tokio::time::sleep(interval)
    \* --- inputs of the decode and sizing stage, <<>> when none is given ---
    payload,        \* the text payload handed to the event's two tasks
    params,         \* max_sol_buy and slippage_percent of the listener
    rpc,            \* what get_account_data answers for the pool and
                    \* for the user's source-token account
    toolArgs,       \* the arguments of a pump_fun_buy tool call
    dbReply,        \* what the coin database answers to the tool
    \* --- per task: results of the decode and sizing stage ---
    decoded,        \* the PumpFunTx / RaydiumMemeTx returned by new()
    order           \* the swap instruction data built for the submitter

streamVars == <<clientState, backoffLeft, idleLeft, sinceError, conn,
                subscribedConn, closeSentOn, lastEvent, framesRead, spawned>>
\* the locals of bfg9000_send_smart_tx, dropped when it returns
localVars == <<supplied, instructions, units, blockhash, lastValid, draftTx, finalTx,
               elapsed, sleepLeft>>
\* what the services answered and received: it outlives the call
serviceVars == <<feeReply, bundlesSent, bundleId, statusReply>>
sendVars == <<localVars, serviceVars>>
taskVars == <<pc, outcome, sendVars>>
\* inputs and results of decoding and sizing
decodeVars == <<payload, params, rpc, toolArgs, dbReply, decoded, order>>
vars == <<streamVars, holder, height, taskVars, decodeVars>>

\* The process is alive: main has not returned (ws_listner.rs:169).
Alive == clientState # "Terminated"

\* ========================================================================
\* Stream client: ws_listner.rs, 'reconnect_loop
\* ========================================================================

\* connect(&url).await returned Ok: set_auto_pong, go on to subscribe.
ConnectOk ==
    /\ clientState = "Connecting"
    /\ conn < MaxConns
    /\ clientState' = "Subscribing"
    /\ conn' = conn + 1
    /\ lastEvent' = "connected"
    /\ UNCHANGED <<backoffLeft, idleLeft, sinceError, subscribedConn,
                   closeSentOn, framesRead, spawned>>
    /\ UNCHANGED <<holder, height, taskVars>>
    /\ UNCHANGED decodeVars

\* connect(&url).await returned Err: sleep 10 s, then `continue`.
ConnectFail ==
    /\ clientState = "Connecting"
    /\ clientState' = "Backoff"
    /\ backoffLeft' = RECONNECT_BACKOFF
    /\ sinceError' = 0
    /\ lastEvent' = "connect_failed"
    /\ UNCHANGED <<idleLeft, conn, subscribedConn, closeSentOn, framesRead,
                   spawned>>
    /\ UNCHANGED <<holder, height, taskVars>>
    /\ UNCHANGED decodeVars

\* The sleep of ws_listner.rs:76 is over: `continue` the reconnect loop.
BackoffDone ==
    /\ clientState = "Backoff"
    /\ backoffLeft = 0
    /\ clientState' = "Connecting"
    /\ lastEvent' = "backoff_done"
    /\ UNCHANGED <<backoffLeft, idleLeft, sinceError, conn, subscribedConn,
                   closeSentOn, framesRead, spawned>>
    /\ UNCHANGED <<holder, height, taskVars>>
    /\ UNCHANGED decodeVars

\* subscribe_raydium returned Ok(()): enter the message loop.
SubscribeOk ==
    /\ clientState = "Subscribing"
    /\ clientState' = "Streaming"
    /\ subscribedConn' = conn
    /\ idleLeft' = READ_IDLE_TIMEOUT
    /\ lastEvent' = "subscribed"
    /\ UNCHANGED <<backoffLeft, sinceError, conn, closeSentOn, framesRead,
                   spawned>>
    /\ UNCHANGED <<holder, height, taskVars>>
    /\ UNCHANGED decodeVars

\* The error of subscribe_raydium ignored: the message loop is entered.
SubscribeFail_EntersStreaming ==
    /\ clientState = "Subscribing"
    /\ clientState' = "Streaming"
    /\ idleLeft' = READ_IDLE_TIMEOUT
    /\ lastEvent' = "subscribe_failed"
    /\ UNCHANGED <<backoffLeft, sinceError, conn, subscribedConn, closeSentOn,
                   framesRead, spawned>>
    /\ UNCHANGED <<holder, height, taskVars>>
    /\ UNCHANGED decodeVars

\* subscribe_raydium returned Err (send error or its timeout elapsed):
\* send_close, then `continue` with the sleep commented out.
SubscribeFail ==
    /\ clientState = "Subscribing"
    /\ clientState' = "Connecting"
    /\ closeSentOn' = closeSentOn \cup {conn}
    /\ sinceError' = 0
    /\ lastEvent' = "subscribe_failed"
    /\ UNCHANGED <<backoffLeft, idleLeft, conn, subscribedConn, framesRead,
                   spawned>>
    /\ UNCHANGED <<holder, height, taskVars>>
    /\ UNCHANGED decodeVars

\* The elapsed timeout handled like a read error: send_close, break.
ReadTimeout_Reconnects ==
    /\ clientState = "Streaming"
    /\ idleLeft = 0
    /\ clientState' = "Connecting"
    /\ closeSentOn' = closeSentOn \cup {conn}
    /\ lastEvent' = "timeout"
    /\ UNCHANGED <<backoffLeft, idleLeft, sinceError, conn, subscribedConn,
                   framesRead, spawned>>
    /\ UNCHANGED <<holder, height, taskVars>>
    /\ UNCHANGED decodeVars

\* The 20 s timeout around receive_frame elapsed: println, `continue`.
ReadTimeout ==
    /\ clientState = "Streaming"
    /\ idleLeft = 0
    /\ idleLeft' = READ_IDLE_TIMEOUT
    /\ lastEvent' = "timeout"
    /\ UNCHANGED <<clientState, backoffLeft, sinceError, conn, subscribedConn,
                   closeSentOn, framesRead, spawned>>
    /\ UNCHANGED <<holder, height, taskVars>>
    /\ UNCHANGED decodeVars

\* receive_frame returned Err: send_close, break the message loop.
ReadError ==
    /\ clientState = "Streaming"
    /\ clientState' = "Connecting"
    /\ closeSentOn' = closeSentOn \cup {conn}
    /\ sinceError' = 0
    /\ lastEvent' = "read_error"
    /\ UNCHANGED <<backoffLeft, idleLeft, conn, subscribedConn, framesRead,
                   spawned>>
    /\ UNCHANGED <<holder, height, taskVars>>
    /\ UNCHANGED decodeVars

\* A text frame whose payload is not valid UTF-8: send_close, break.
TextFrameBadUtf8 ==
    /\ clientState = "Streaming"
    /\ framesRead < MaxFrames
    /\ clientState' = "Connecting"
    /\ closeSentOn' = closeSentOn \cup {conn}
    /\ sinceError' = 0
    /\ framesRead' = framesRead + 1
    /\ lastEvent' = "bad_utf8"
    /\ UNCHANGED <<backoffLeft, idleLeft, conn, subscribedConn, spawned>>
    /\ UNCHANGED <<holder, height, taskVars>>
    /\ UNCHANGED decodeVars

\* A text frame with a valid payload: spawn the two venue tasks.
TextFrame ==
    /\ clientState = "Streaming"
    /\ framesRead < MaxFrames
    /\ spawned < MaxEvents
    /\ spawned' = spawned + 1
    /\ framesRead' = framesRead + 1
    /\ idleLeft' = READ_IDLE_TIMEOUT
    /\ lastEvent' = "text"
    /\ pc' = [t \in Tasks |->
                IF EventOf(t) = spawned + 1 THEN "decode" ELSE pc[t]]
    /\ UNCHANGED <<clientState, backoffLeft, sinceError, conn, subscribedConn,
                   closeSentOn>>
    /\ UNCHANGED <<holder, height, outcome, sendVars>>
    /\ UNCHANGED decodeVars

\* A Close frame handled like a read error: break the message loop only.
CloseFrame_Reconnects ==
    /\ clientState = "Streaming"
    /\ framesRead < MaxFrames
    /\ clientState' = "Connecting"
    /\ framesRead' = framesRead + 1
    /\ lastEvent' = "close"
    /\ UNCHANGED <<backoffLeft, idleLeft, sinceError, conn, subscribedConn,
                   closeSentOn, spawned>>
    /\ UNCHANGED <<holder, height, taskVars>>
    /\ UNCHANGED decodeVars

\* A Close frame: break 'reconnect_loop, main returns Ok(()).
CloseFrame ==
    /\ clientState = "Streaming"
    /\ framesRead < MaxFrames
    /\ clientState' = "Terminated"
    /\ framesRead' = framesRead + 1
    /\ lastEvent' = "close"
    /\ UNCHANGED <<backoffLeft, idleLeft, sinceError, conn, subscribedConn,
                   closeSentOn, spawned>>
    /\ UNCHANGED <<holder, height, taskVars>>
    /\ UNCHANGED decodeVars

\* Any other frame (binary, ping, pong, continuation): `_ => {}`.
OtherFrame ==
    /\ clientState = "Streaming"
    /\ framesRead < MaxFrames
    /\ framesRead' = framesRead + 1
    /\ idleLeft' = READ_IDLE_TIMEOUT
    /\ lastEvent' = "other"
    /\ UNCHANGED <<clientState, backoffLeft, sinceError, conn, subscribedConn,
                   closeSentOn, spawned>>
    /\ UNCHANGED <<holder, height, taskVars>>
    /\ UNCHANGED decodeVars

\* ========================================================================
\* Venue pipelines: compose_and_send up to the call of the submitter
\* ========================================================================

\* A caller-supplied instruction (pump_fun_ix, raydium_swap_ix, create_ata_ix)
UserIx(n) == [kind |-> "user", name |-> n, value |-> 0]

\* The pool of Jito tip accounts the tip is drawn from (JITO_TIP_ACCOUNTS).
TipAccounts == {"jito_tip_a", "jito_tip_b"}

\* helius.add_tip_instruction: a transfer of tip_amount to the tip account.
TipIx(acct) == [kind |-> "tip", name |-> acct, value |-> TIP_AMOUNT]

\* ComputeBudgetInstruction::set_compute_unit_price / set_compute_unit_limit
SetComputeUnitPrice(p) == [kind |-> "cu_price", name |-> "", value |-> p]
SetComputeUnitLimit(u) == [kind |-> "cu_limit", name |-> "", value |-> u]

\* The task ends: its future completes (or unwinds), which drops its locals
\* and with them the MutexGuard.
Done(t, o) ==
    /\ pc' = [pc EXCEPT ![t] = "done"]
    /\ outcome' = [outcome EXCEPT ![t] = o]
    /\ holder' = IF holder = t THEN 0 ELSE holder
    /\ supplied' = [supplied EXCEPT ![t] = <<>>]
    /\ instructions' = [instructions EXCEPT ![t] = <<>>]
    /\ units' = [units EXCEPT ![t] = 0]
    /\ blockhash' = [blockhash EXCEPT ![t] = <<>>]
    /\ lastValid' = [lastValid EXCEPT ![t] = 0]
    /\ draftTx' = [draftTx EXCEPT ![t] = <<>>]
    /\ finalTx' = [finalTx EXCEPT ![t] = <<>>]
    /\ elapsed' = [elapsed EXCEPT ![t] = 0]
    /\ sleepLeft' = [sleepLeft EXCEPT ![t] = 0]

\* The task moves on to position p; the guard and the outcome stay.
Goto(t, p) ==
    /\ pc' = [pc EXCEPT ![t] = p]
    /\ UNCHANGED <<holder, outcome>>

\* from_str(payload).expect("Invalid JSON") or another unwrap of the decoder
\* panics: the task unwinds, its JoinHandle is never awaited.
PipelinePanic(t) ==
    /\ Alive
    /\ pc[t] = "decode"
    /\ Done(t, "Panic")
    /\ UNCHANGED <<streamVars, height, serviceVars>>
    /\ UNCHANGED decodeVars

\* A field of the decoded result is absent (`.ok_or(..)?`), the instruction
\* is unknown, or the Raydium operation is Sell: compose_and_send returns Err.
PipelineAbort(t) ==
    /\ Alive
    /\ pc[t] = "decode"
    /\ Done(t, "Error")
    /\ UNCHANGED <<streamVars, height, serviceVars>>
    /\ UNCHANGED decodeVars

\* A Buy: [create_ata_ix, swap] goes to bfg9000_send_smart_tx, with
\* DEFAULT_COMPUTE_UNIT_LIMIT on Pump.fun and the copied transaction's
\* compute_unit_limit (0 when it has none) on Raydium.
PipelineBuy(t) ==
    /\ Alive
    /\ pc[t] = "decode"
    /\ \E u \in {0, DEFAULT_COMPUTE_UNIT_LIMIT} :
          /\ Venue(t) = "pump_fun" => u = DEFAULT_COMPUTE_UNIT_LIMIT
          /\ units' = [units EXCEPT ![t] = u]
    /\ instructions' = [instructions EXCEPT
                          ![t] = <<UserIx("create_ata"), UserIx("swap")>>]
    /\ supplied' = [supplied EXCEPT
                      ![t] = <<UserIx("create_ata"), UserIx("swap")>>]
    /\ Goto(t, "lock")
    /\ UNCHANGED <<streamVars, height, blockhash, lastValid, draftTx, finalTx,
                   elapsed, sleepLeft, serviceVars>>
    /\ UNCHANGED decodeVars

\* A Pump.fun Sell: [pump_fun_ix] alone goes to bfg9000_send_smart_tx.
PipelineSell(t) ==
    /\ Alive
    /\ pc[t] = "decode"
    /\ Venue(t) = "pump_fun"
    /\ units' = [units EXCEPT ![t] = DEFAULT_COMPUTE_UNIT_LIMIT]
    /\ instructions' = [instructions EXCEPT ![t] = <<UserIx("swap")>>]
    /\ supplied' = [supplied EXCEPT ![t] = <<UserIx("swap")>>]
    /\ Goto(t, "lock")
    /\ UNCHANGED <<streamVars, height, blockhash, lastValid, draftTx, finalTx,
                   elapsed, sleepLeft, serviceVars>>
    /\ UNCHANGED decodeVars

\* ========================================================================
\* SendSmartTx::bfg9000_send_smart_tx (tx_common.rs:80-325).  Callers pass
\* lookup_tables = None, so the legacy-transaction branches are the ones
\* modelled.
\* ========================================================================

\* A signed transaction: its instruction list and the blockhash it was
\* signed with (Transaction::new_with_payer + try_sign).
Tx(ixs, bh) == [ixs |-> ixs, blockhash |-> bh]

\* The compute-budget instructions pushed behind the list, not in front.
FinalInstructions_Appended(p, u, ixs) ==
    ixs \o <<SetComputeUnitPrice(p), SetComputeUnitLimit(u)>>

\* vec![compute_budget_ix, compute_units_ix] extended by `instructions`
\* (which already carries the tip).
FinalInstructions(p, u, ixs) ==
    <<SetComputeUnitPrice(p), SetComputeUnitLimit(u)>> \o ixs

\* The priority-fee service's possible replies.
Prices == 1..NumPrices
FeeReplies ==
    {[status |-> "error", price |-> 0], [status |-> "no_estimate", price |-> 0]}
        \cup {[status |-> "ok", price |-> p] : p \in Prices}

\* helius.lock().await returns the guard; the tip instruction is pushed to
\* `instructions` and the blockhash request goes out.
AcquireLock(t) ==
    /\ Alive
    /\ pc[t] = "lock"
    /\ holder = 0
    /\ holder' = t
    /\ \E acct \in TipAccounts :
          instructions' = [instructions EXCEPT ![t] = Append(@, TipIx(acct))]
    /\ pc' = [pc EXCEPT ![t] = "blockhash"]
    /\ UNCHANGED <<streamVars, height, outcome, supplied, units, blockhash,
                   lastValid, draftTx, finalTx, elapsed, sleepLeft,
                   serviceVars>>
    /\ UNCHANGED decodeVars

\* get_latest_blockhash_with_commitment returned Ok.
BlockhashOk(t) ==
    /\ Alive
    /\ pc[t] = "blockhash"
    /\ blockhash' = [blockhash EXCEPT ![t] = <<height>>]
    /\ lastValid' = [lastValid EXCEPT ![t] = height + ValidWindow]
    /\ Goto(t, "build_draft")
    /\ UNCHANGED <<streamVars, height, supplied, instructions, units,
                   draftTx, finalTx, elapsed, sleepLeft, serviceVars>>
    /\ UNCHANGED decodeVars

\* get_latest_blockhash_with_commitment returned Err: `.unwrap()` panics.
BlockhashFail(t) ==
    /\ Alive
    /\ pc[t] = "blockhash"
    /\ Done(t, "Panic")
    /\ UNCHANGED <<streamVars, height, serviceVars>>
    /\ UNCHANGED decodeVars

\* The draft is built from `instructions` (caller's list + tip) and signed.
BuildDraft(t) ==
    /\ Alive
    /\ pc[t] = "build_draft"
    /\ draftTx' = [draftTx EXCEPT
                     ![t] = <<Tx(instructions[t], blockhash[t][1])>>]
    /\ Goto(t, "estimate")
    /\ UNCHANGED <<streamVars, height, supplied, instructions, units,
                   blockhash, lastValid, finalTx, elapsed, sleepLeft,
                   serviceVars>>
    /\ UNCHANGED decodeVars

\* try_sign or serialize of the draft failed: `?` returns the error.
BuildDraftFail(t) ==
    /\ Alive
    /\ pc[t] = "build_draft"
    /\ Done(t, "Error")
    /\ UNCHANGED <<streamVars, height, serviceVars>>
    /\ UNCHANGED decodeVars

\* A missing estimate replaced by a fallback price (unwrap_or_default).
EstimateReply_Fallback(t) ==
    /\ Alive
    /\ pc[t] = "estimate"
    /\ \E r \in FeeReplies :
          /\ feeReply' = [feeReply EXCEPT ![t] = <<r>>]
          /\ IF r.status \in {"ok", "no_estimate"}
                THEN Goto(t, "build_final") /\ UNCHANGED localVars
                ELSE Done(t, "Error")
    /\ UNCHANGED <<streamVars, height, bundlesSent, bundleId, statusReply>>
    /\ UNCHANGED decodeVars

\* get_priority_fee_estimate replied.  An Err (`.await?`) or a response
\* without an estimate (`.ok_or(..)?`) ends the submission with an error.
EstimateReply(t) ==
    /\ Alive
    /\ pc[t] = "estimate"
    /\ \E r \in FeeReplies :
          /\ feeReply' = [feeReply EXCEPT ![t] = <<r>>]
          /\ IF r.status = "ok"
                THEN Goto(t, "build_final") /\ UNCHANGED localVars
                ELSE Done(t, "Error")
    /\ UNCHANGED <<streamVars, height, bundlesSent, bundleId, statusReply>>
    /\ UNCHANGED decodeVars

\* The final transaction is rebuilt with the compute-budget instructions in
\* front and signed with the same recent_blockhash.
BuildFinal(t) ==
    /\ Alive
    /\ pc[t] = "build_final"
    /\ finalTx' = [finalTx EXCEPT ![t] =
          <<Tx(FinalInstructions(feeReply[t][1].price, units[t],
                                 instructions[t]),
               blockhash[t][1])>>]
    /\ Goto(t, "send")
    /\ UNCHANGED <<streamVars, height, supplied, instructions, units,
                   blockhash, lastValid, draftTx, elapsed, sleepLeft,
                   serviceVars>>
    /\ UNCHANGED decodeVars

\* try_partial_sign or serialize of the final transaction failed.
BuildFinalFail(t) ==
    /\ Alive
    /\ pc[t] = "build_final"
    /\ Done(t, "Error")
    /\ UNCHANGED <<streamVars, height, serviceVars>>
    /\ UNCHANGED decodeVars

\* send_jito_bundle(vec![transaction_base58]) returned a bundle id:
\* start = Instant::now(), enter the polling loop.
SendBundleOk(t) ==
    /\ Alive
    /\ pc[t] = "send"
    /\ bundlesSent' = [bundlesSent EXCEPT ![t] = @ + 1]
    /\ bundleId' = [bundleId EXCEPT ![t] = <<t>>]
    /\ elapsed' = [elapsed EXCEPT ![t] = 0]
    /\ Goto(t, "poll")
    /\ UNCHANGED <<streamVars, height, supplied, instructions, units,
                   blockhash, lastValid, draftTx, finalTx, sleepLeft, feeReply,
                   statusReply>>
    /\ UNCHANGED decodeVars

\* send_jito_bundle returned Err (relay rejection): `?` returns it.
SendBundleFail(t) ==
    /\ Alive
    /\ pc[t] = "send"
    /\ bundlesSent' = [bundlesSent EXCEPT ![t] = @ + 1]
    /\ Done(t, "Error")
    /\ UNCHANGED <<streamVars, height, feeReply, bundleId, statusReply>>
    /\ UNCHANGED decodeVars

\* The loop condition  start.elapsed() < timeout || height <= last_valid:
\* its left operand.  When it holds the body runs and the status query goes
\* out; otherwise get_block_height is requested.
PollCheck(t) ==
    /\ Alive
    /\ pc[t] = "poll"
    /\ Goto(t, IF elapsed[t] < POLL_TIMEOUT THEN "status" ELSE "height")
    /\ UNCHANGED <<streamVars, height, sendVars>>
    /\ UNCHANGED decodeVars

\* The right operand: get_block_height returned Ok(height).  When it holds
\* the body runs; otherwise the loop ends and Err(Timeout) is returned.
HeightReply(t) ==
    /\ Alive
    /\ pc[t] = "height"
    /\ IF height <= lastValid[t]
          THEN Goto(t, "status") /\ UNCHANGED localVars
          ELSE Done(t, "Timeout")
    /\ UNCHANGED <<streamVars, height, serviceVars>>
    /\ UNCHANGED decodeVars

\* get_block_height returned Err: `.await?` returns it from the function.
HeightFail(t) ==
    /\ Alive
    /\ pc[t] = "height"
    /\ Done(t, "Error")
    /\ UNCHANGED <<streamVars, height, serviceVars>>
    /\ UNCHANGED decodeVars

\* get_bundle_statuses replied without a "confirmed" first entry (empty
\* value list, no confirmation_status, or another status): sleep(interval).
StatusPending(t) ==
    /\ Alive
    /\ pc[t] = "status"
    /\ statusReply' = [statusReply EXCEPT ![t] = "pending"]
    /\ sleepLeft' = [sleepLeft EXCEPT ![t] = POLL_INTERVAL]
    /\ Goto(t, "sleep")
    /\ UNCHANGED <<streamVars, height, supplied, instructions, units,
                   blockhash, lastValid, draftTx, finalTx, elapsed, feeReply,
                   bundlesSent, bundleId>>
    /\ UNCHANGED decodeVars

\* The first entry is "confirmed" and carries a transaction id: Ok(tx_id).
StatusConfirmed(t) ==
    /\ Alive
    /\ pc[t] = "status"
    /\ statusReply' = [statusReply EXCEPT ![t] = "confirmed"]
    /\ Done(t, "Ok")
    /\ UNCHANGED <<streamVars, height, feeReply, bundlesSent, bundleId>>
    /\ UNCHANGED decodeVars

\* The first entry is "confirmed" but transactions[0] is not a string:
\* `.as_str().unwrap()` panics.
StatusConfirmedNoTx(t) ==
    /\ Alive
    /\ pc[t] = "status"
    /\ statusReply' = [statusReply EXCEPT ![t] = "confirmed_no_tx"]
    /\ Done(t, "Panic")
    /\ UNCHANGED <<streamVars, height, feeReply, bundlesSent, bundleId>>
    /\ UNCHANGED decodeVars

\* get_bundle_statuses returned Err: `.await?` returns it from the function.
StatusFail(t) ==
    /\ Alive
    /\ pc[t] = "status"
    /\ statusReply' = [statusReply EXCEPT ![t] = "error"]
    /\ Done(t, "Error")
    /\ UNCHANGED <<streamVars, height, feeReply, bundlesSent, bundleId>>
    /\ UNCHANGED decodeVars

\* tokio::time::sleep(interval) is over: evaluate the loop condition again.
SleepDone(t) ==
    /\ Alive
    /\ pc[t] = "sleep"
    /\ sleepLeft[t] = 0
    /\ Goto(t, "poll")
    /\ UNCHANGED <<streamVars, height, sendVars>>
    /\ UNCHANGED decodeVars

\* ========================================================================
\* Environment: time and the chain
\* ========================================================================
Polling(t) == pc[t] \in {"poll", "height", "status", "sleep"}

\* POLL_INTERVAL seconds pass: every running countdown and stopwatch moves.
Tick ==
    /\ backoffLeft' = IF clientState = "Backoff"
                         THEN Max(0, backoffLeft - POLL_INTERVAL)
                         ELSE backoffLeft
    /\ idleLeft' = IF clientState = "Streaming"
                      THEN Max(0, idleLeft - POLL_INTERVAL) ELSE idleLeft
    /\ sinceError' = Min(RECONNECT_BACKOFF, sinceError + POLL_INTERVAL)
    /\ elapsed' = [t \in Tasks |->
                     IF Polling(t) /\ Alive
                        THEN Min(POLL_TIMEOUT, elapsed[t] + POLL_INTERVAL)
                        ELSE elapsed[t]]
    /\ sleepLeft' = [t \in Tasks |->
                       IF pc[t] = "sleep" /\ Alive
                          THEN Max(0, sleepLeft[t] - POLL_INTERVAL)
                          ELSE sleepLeft[t]]
    /\ UNCHANGED <<clientState, conn, subscribedConn, closeSentOn, lastEvent,
                   framesRead, spawned, holder, height, pc, outcome, supplied,
                   instructions, units, blockhash, lastValid, draftTx,
                   finalTx, serviceVars>>
    /\ UNCHANGED decodeVars

\* The chain produces a block.
HeightAdvance ==
    /\ height < MaxHeight
    /\ height' = height + 1
    /\ UNCHANGED <<streamVars, holder, taskVars>>
    /\ UNCHANGED decodeVars

\* ========================================================================
\* Specifications
\* ========================================================================
TaskInit ==
    /\ holder = 0
    /\ height = 0
    /\ outcome = [t \in Tasks |-> "none"]
    /\ blockhash = [t \in Tasks |-> <<>>]
    /\ lastValid = [t \in Tasks |-> 0]
    /\ draftTx = [t \in Tasks |-> <<>>]
    /\ feeReply = [t \in Tasks |-> <<>>]
    /\ finalTx = [t \in Tasks |-> <<>>]
    /\ bundlesSent = [t \in Tasks |-> 0]
    /\ bundleId = [t \in Tasks |-> <<>>]
    /\ statusReply = [t \in Tasks |-> "none"]
    /\ elapsed = [t \in Tasks |-> 0]
    /\ sleepLeft = [t \in Tasks |-> 0]

\* No payload is under decode and no tool call is in progress.
NoInput ==
    /\ payload = <<>>
    /\ params = <<>>
    /\ rpc = <<>>
    /\ toolArgs = <<>>
    /\ dbReply = <<>>
    /\ decoded = [t \in Tasks |-> <<>>]
    /\ order = [t \in Tasks |-> <<>>]

\* The stream listener right before its first connect; no task spawned yet.
Init ==
    /\ clientState = "Connecting"
    /\ backoffLeft = 0
    /\ idleLeft = 0
    /\ sinceError = RECONNECT_BACKOFF
    /\ conn = 0
    /\ subscribedConn = 0
    /\ closeSentOn = {}
    /\ lastEvent = "start"
    /\ framesRead = 0
    /\ spawned = 0
    /\ pc = [t \in Tasks |-> "idle"]
    /\ supplied = [t \in Tasks |-> <<>>]
    /\ instructions = [t \in Tasks |-> <<>>]
    /\ units = [t \in Tasks |-> 0]
    /\ TaskInit
    /\ NoInput

StreamStep ==
    \/ ConnectOk
    \/ ConnectFail
    \/ BackoffDone
    \/ SubscribeOk
    \/ SubscribeFail
    \/ ReadTimeout
    \/ ReadError
    \/ TextFrameBadUtf8
    \/ TextFrame
    \/ CloseFrame
    \/ OtherFrame

PipelineStep(t) ==
    \/ PipelinePanic(t)
    \/ PipelineAbort(t)
    \/ PipelineBuy(t)
    \/ PipelineSell(t)

SendStep(t) ==
    \/ AcquireLock(t)
    \/ BlockhashOk(t)
    \/ BlockhashFail(t)
    \/ BuildDraft(t)
    \/ BuildDraftFail(t)
    \/ EstimateReply(t)
    \/ BuildFinal(t)
    \/ BuildFinalFail(t)
    \/ SendBundleOk(t)
    \/ SendBundleFail(t)
    \/ PollCheck(t)
    \/ HeightReply(t)
    \/ HeightFail(t)
    \/ StatusPending(t)
    \/ StatusConfirmed(t)
    \/ StatusConfirmedNoTx(t)
    \/ StatusFail(t)
    \/ SleepDone(t)

\* The whole program: the listener, the tasks it spawns, the submitter.
Next ==
    \/ StreamStep
    \/ \E t \in Tasks : PipelineStep(t)
    \/ \E t \in Tasks : SendStep(t)
    \/ Tick
    \/ HeightAdvance

Spec == Init /\ [][Next]_vars

\* The stream listener on its own: the reconnect loop, the dispatch of the
\* two venue tasks and their decode stage.  No stream action reads a task's
\* state, so what the tasks do after the decode stage cannot change what
\* the listener does.
NextStream ==
    \/ StreamStep
    \/ \E t \in Tasks : PipelineStep(t)
    \/ Tick

SpecStream == Init /\ [][NextStream]_vars

\* One inbound event end to end: the listener is Streaming on its first
\* connection, a text frame arrives and its two tasks run to completion
\* over the shared Helius handle.
InitPair ==
    /\ clientState = "Streaming"
    /\ backoffLeft = 0
    /\ idleLeft = 0
    /\ sinceError = RECONNECT_BACKOFF
    /\ conn = 1
    /\ subscribedConn = 1
    /\ closeSentOn = {}
    /\ lastEvent = "other"
    /\ framesRead = 0
    /\ spawned = 0
    /\ pc = [t \in Tasks |-> "idle"]
    /\ supplied = [t \in Tasks |-> <<>>]
    /\ instructions = [t \in Tasks |-> <<>>]
    /\ units = [t \in Tasks |-> 0]
    /\ TaskInit
    /\ NoInput

NextPair ==
    \/ TextFrame
    \/ \E t \in Tasks : PipelineStep(t)
    \/ \E t \in Tasks : SendStep(t)
    \/ Tick
    \/ HeightAdvance

SpecPair == InitPair /\ [][NextPair]_vars

\* A single call of bfg9000_send_smart_tx with an arbitrary caller-supplied
\* instruction list and compute budget, outside the stream listener (as the
\* direct-buy tool calls it through PumpFunTxSend::buy).
UserIxNames == {"create_ata", "swap"}
InstrLists ==
    UNION {[1..n -> {UserIx(x) : x \in UserIxNames}] : n \in 0..MaxInstr}
UnitChoices == {0, DEFAULT_COMPUTE_UNIT_LIMIT}

InitSend ==
    /\ clientState = "NotStarted"
    /\ backoffLeft = 0
    /\ idleLeft = 0
    /\ sinceError = RECONNECT_BACKOFF
    /\ conn = 0
    /\ subscribedConn = 0
    /\ closeSentOn = {}
    /\ lastEvent = "start"
    /\ framesRead = 0
    /\ spawned = 0
    /\ pc = [t \in Tasks |-> IF t = 1 THEN "lock" ELSE "idle"]
    /\ \E L \in InstrLists :
          /\ supplied = [t \in Tasks |-> IF t = 1 THEN L ELSE <<>>]
          /\ instructions = supplied
    /\ \E u \in UnitChoices : units = [t \in Tasks |-> IF t = 1 THEN u ELSE 0]
    /\ TaskInit
    /\ NoInput

NextSend ==
    \/ \E t \in Tasks : SendStep(t)
    \/ Tick
    \/ HeightAdvance

SpecSend == InitSend /\ [][NextSend]_vars

\* ========================================================================
\* Decode layer: the text payload and the extraction steps
\* (bot/tx_common.rs:29-76, bot/pump_fun_tx.rs, bot/raydium_meme_tx.rs)
\*
\* A JSON value that may be absent or of another type is an option: <<>>
\* when `.as_str()` / `.as_array()` gives None, <<v>> when it gives Some(v).
\* ========================================================================

\* Program ids as they appear in a "programId" field.
PUMP_FUN_PROGRAM == "pump_fun_program"
RAYDIUM_LIQUIDITY_POOL_V4_PROGRAM == "raydium_pool_v4_program"
COMPUTE_BUDGET_PROGRAM == "compute_budget_program"
SYSTEM_PROGRAM == "system_program"
SPL_TOKEN_PROGRAM == "spl_token_program"
PUMP_FUN_FEE_RECIPIENT == "pump_fun_fee_recipient"
WSOL_MINT == "wsol_mint"

\* The 8-byte discriminators of the two Pump.fun instructions.
PUMP_FUN_ACTION_BUY == <<102, 6, 61, 18, 1, 218, 235, 234>>
PUMP_FUN_ACTION_SELL == <<51, 230, 133, 164, 1, 127, 131, 173>>

PUMP_FUN_ACCOUNTS_LEN == 12
PUMP_FUN_DATA_MIN_LEN == 24
RAYDIUM_SWAP_BASE_IN_INSTRUCTION == 9
RAYDIUM_SWAP_BASE_OUT_INSTRUCTION == 11
RAYDIUM_ACCOUNTS_LEN_SWAP_BASE_IN == 17
BOT_RAYDIUM_OPERATION_BUY == 1
BOT_RAYDIUM_OPERATION_SELL == 2
COMPUTE_BUDGET_SET_LIMIT_TAG == 2
COMPUTE_BUDGET_SET_PRICE_TAG == 3

MinOf(S) == CHOOSE x \in S : \A y \in S : x <= y
MaxOf(S) == CHOOSE x \in S : \A y \in S : x >= y

\* u64::from_le_bytes / u32::from_le_bytes of a byte sequence.
RECURSIVE FromLeBytes(_)
FromLeBytes(bytes) ==
    IF bytes = <<>> THEN 0 ELSE bytes[1] + 256 * FromLeBytes(Tail(bytes))

\* v.to_le_bytes() on n bytes.
RECURSIVE ToLeBytes(_, _)
ToLeBytes(v, n) ==
    IF n = 0 THEN <<>> ELSE <<v % 256>> \o ToLeBytes(v \div 256, n - 1)

\* The "data" field of an instruction: absent (not a string), a string that
\* is not base58, or a base58 string, given by the bytes it decodes to.
NoData == [kind |-> "absent", bytes |-> <<>>]
NotBase58 == [kind |-> "not_base58", bytes |-> <<>>]
Base58(bytes) == [kind |-> "bytes", bytes |-> bytes]

\* GetTxCommon::pubkey_to_string: the entry's text, "not found" when the
\* entry is not a string.
pubkey_to_string(entry) == IF entry = <<>> THEN "not found" ELSE entry[1]

\* GetSignature::get_signature
get_signature(json) == json.signature

\* Indices of the top-level instructions whose programId is the string id.
ProgramIndices(ixs, id) == {i \in 1..Len(ixs) : ixs[i].programId = <<id>>}

\* instructions.iter().find(programId == PUMP_FUN_PROGRAM), <<>> when the
\* instructions array is absent or holds no such instruction.
FindPumpFunInstruction(json) ==
    IF json.instructions = <<>> THEN <<>>
    ELSE LET ixs == json.instructions[1]
             found == ProgramIndices(ixs, PUMP_FUN_PROGRAM)
         IN  IF found = {} THEN <<>> ELSE <<ixs[MinOf(found)]>>

\* get_accounts accepting every list of at least 12 entries.
PumpFunGetAccounts_AtLeastTwelve(json) ==
    LET ix == FindPumpFunInstruction(json) IN
    IF ix = <<>> THEN <<>>
    ELSE IF ix[1].accounts = <<>> THEN <<>>
    ELSE LET accounts == ix[1].accounts[1] IN
         IF Len(accounts) < PUMP_FUN_ACCOUNTS_LEN THEN <<>>
         ELSE <<[mint |-> pubkey_to_string(accounts[3]),
                 bonding_curve |-> pubkey_to_string(accounts[4]),
                 associated_bonding_curve |-> pubkey_to_string(accounts[5])]>>

\* PumpFunTx::get_accounts
PumpFunGetAccounts(json) ==
    LET ix == FindPumpFunInstruction(json) IN
    IF ix = <<>> THEN <<>>
    ELSE IF ix[1].accounts = <<>> THEN <<>>
    ELSE LET accounts == ix[1].accounts[1] IN
         IF Len(accounts) # PUMP_FUN_ACCOUNTS_LEN THEN <<>>
         ELSE <<[mint |-> pubkey_to_string(accounts[3]),
                 bonding_curve |-> pubkey_to_string(accounts[4]),
                 associated_bonding_curve |-> pubkey_to_string(accounts[5])]>>

\* PumpFunTx::get_pump_fun_data followed by the naming of the instruction
\* in PumpFunTx::new (lines 73-87).
InstructionName(disc) ==
    IF disc = PUMP_FUN_ACTION_BUY THEN "buy"
    ELSE IF disc = PUMP_FUN_ACTION_SELL THEN "sell" ELSE "unknown"

get_pump_fun_data(json) ==
    LET ix == FindPumpFunInstruction(json) IN
    IF ix = <<>> THEN <<>>
    ELSE IF ix[1].data.kind # "bytes" THEN <<>>
    ELSE LET decoded_bytes == ix[1].data.bytes IN
         IF Len(decoded_bytes) < PUMP_FUN_DATA_MIN_LEN THEN <<>>
         ELSE <<[instruction |-> SubSeq(decoded_bytes, 1, 8),
                 instruction_name |->
                     InstructionName(SubSeq(decoded_bytes, 1, 8)),
                 amount |-> FromLeBytes(SubSeq(decoded_bytes, 9, 16)),
                 sol |-> FromLeBytes(SubSeq(decoded_bytes, 17, 24))]>>

\* All instructions of all inner-instruction groups, in order; a group
\* whose "instructions" is not an array contributes none.
RECURSIVE FlattenGroups(_)
FlattenGroups(groups) ==
    IF groups = <<>> THEN <<>>
    ELSE (IF Head(groups) = <<>> THEN <<>> ELSE Head(groups)[1])
             \o FlattenGroups(Tail(groups))

\* The matching inner instruction that the loop leaves in its variable: the
\* last one, <<>> when none matched.
LastMatch(ixs, S) == IF S = {} THEN <<>> ELSE <<ixs[MaxOf(S)]>>

\* info["amount"].as_str() parsed as u64, 0 when absent or unparsable.
ParsedAmountOr0(ix) ==
    IF ix = <<>> THEN 0
    ELSE IF ix[1].amount = <<>> THEN 0
    ELSE IF ix[1].amount[1].ok THEN ix[1].amount[1].v ELSE 0

\* info["lamports"].as_number().as_u64(), 0 when absent or not a u64.
LamportsOr0(ix) ==
    IF ix = <<>> THEN 0
    ELSE IF ix[1].lamports = <<>> THEN 0 ELSE ix[1].lamports[1]

\* get_amounts giving up when no token transfer of the bonding curve is
\* found.
PumpFunGetAmounts_NeedsTokenTransfer(json, accounts) ==
    IF json.inner = <<>> THEN <<>>
    ELSE LET ixs == FlattenGroups(json.inner[1])
             spl == {i \in 1..Len(ixs) :
                        /\ ixs[i].programId = <<SPL_TOKEN_PROGRAM>>
                        /\ ixs[i].authority = <<accounts.bonding_curve>>}
             sol == {i \in 1..Len(ixs) :
                        /\ ixs[i].programId = <<SYSTEM_PROGRAM>>
                        /\ ixs[i].destination = <<accounts.bonding_curve>>}
             fee == {i \in 1..Len(ixs) :
                        /\ ixs[i].programId = <<SYSTEM_PROGRAM>>
                        /\ ixs[i].destination = <<PUMP_FUN_FEE_RECIPIENT>>}
         IN  IF spl = {} THEN <<>>
             ELSE <<[amount |-> ParsedAmountOr0(LastMatch(ixs, spl)),
                     sol |-> LamportsOr0(LastMatch(ixs, sol)),
                     fee |-> LamportsOr0(LastMatch(ixs, fee))]>>

\* PumpFunTx::get_amounts
PumpFunGetAmounts(json, accounts) ==
    IF json.inner = <<>> THEN <<>>
    ELSE LET ixs == FlattenGroups(json.inner[1])
             spl == {i \in 1..Len(ixs) :
                        /\ ixs[i].programId = <<SPL_TOKEN_PROGRAM>>
                        /\ ixs[i].authority = <<accounts.bonding_curve>>}
             sol == {i \in 1..Len(ixs) :
                        /\ ixs[i].programId = <<SYSTEM_PROGRAM>>
                        /\ ixs[i].destination = <<accounts.bonding_curve>>}
             fee == {i \in 1..Len(ixs) :
                        /\ ixs[i].programId = <<SYSTEM_PROGRAM>>
                        /\ ixs[i].destination = <<PUMP_FUN_FEE_RECIPIENT>>}
         IN  <<[amount |-> ParsedAmountOr0(LastMatch(ixs, spl)),
                sol |-> LamportsOr0(LastMatch(ixs, sol)),
                fee |-> LamportsOr0(LastMatch(ixs, fee))]>>

\* What one top-level instruction does to get_compute_data's loop: the
\* unwrap of a programId that is not a string, of a data field that is not
\* a string or not base58, the index [0] of an empty byte vector and the
\* try_into of a tail of the wrong length all panic.
ComputeEffect(ix) ==
    LET none == [panic |-> FALSE, limit |-> <<>>, price |-> <<>>]
        boom == [panic |-> TRUE, limit |-> <<>>, price |-> <<>>]
        bytes == ix.data.bytes
    IN  IF ix.programId = <<>> THEN boom
        ELSE IF ix.programId # <<COMPUTE_BUDGET_PROGRAM>> THEN none
        ELSE IF ix.data.kind # "bytes" THEN boom
        ELSE IF bytes = <<>> THEN boom
        ELSE IF bytes[1] = COMPUTE_BUDGET_SET_LIMIT_TAG
             THEN IF Len(bytes) # 1 + 4 THEN boom
                  ELSE [none EXCEPT !.limit = <<FromLeBytes(Tail(bytes))>>]
        ELSE IF bytes[1] = COMPUTE_BUDGET_SET_PRICE_TAG
             THEN IF Len(bytes) # 1 + 8 THEN boom
                  ELSE [none EXCEPT !.price = <<FromLeBytes(Tail(bytes))>>]
        ELSE none

\* GetComputeData::get_compute_data: [panic, value], value being the
\* Option<(u32, u64)> it returns when it does not panic.
get_compute_data(json) ==
    IF json.instructions = <<>> THEN [panic |-> FALSE, value |-> <<>>]
    ELSE LET ixs == json.instructions[1]
             eff == [i \in 1..Len(ixs) |-> ComputeEffect(ixs[i])]
             lim == {i \in 1..Len(ixs) : eff[i].limit # <<>>}
             pri == {i \in 1..Len(ixs) : eff[i].price # <<>>}
         IN  IF \E i \in 1..Len(ixs) : eff[i].panic
             THEN [panic |-> TRUE, value |-> <<>>]
             ELSE [panic |-> FALSE,
                   value |-> <<[compute_unit_limit |->
                                   IF lim = {} THEN 0
                                   ELSE eff[MaxOf(lim)].limit[1],
                                compute_unit_price |->
                                   IF pri = {} THEN 0
                                   ELSE eff[MaxOf(pri)].price[1]]>>]

\* A result that loses the accounts once the instruction data is read.
PumpFunTxOf_DropsAccounts(sig, acc, ix, inner, limit, price) ==
    [signature |-> sig, accounts |-> IF ix = <<>> THEN acc ELSE <<>>,
     ix_data |-> ix, inner_ix_data |-> inner,
     compute_unit_limit |-> limit, compute_unit_price |-> price]

\* PumpFunTx with the given fields and compute hints.
PumpFunTxOf(sig, acc, ix, inner, limit, price) ==
    [signature |-> sig, accounts |-> acc, ix_data |-> ix,
     inner_ix_data |-> inner,
     compute_unit_limit |-> limit, compute_unit_price |-> price]

\* PumpFunTx::new: [panic, tx].  from_str(..).expect("Invalid JSON") and
\* the unwraps of get_compute_data panic; every other missing field ends
\* the decoding with the fields extracted so far.
PumpFunTxNew(text) ==
    LET sig == get_signature(text)
        acc == PumpFunGetAccounts(text)
        ix == get_pump_fun_data(text)
        inner == PumpFunGetAmounts(text, acc[1])
        cd == get_compute_data(text)
        Ret(tx) == [panic |-> FALSE, tx |-> tx]
        Boom == [panic |-> TRUE,
                 tx |-> PumpFunTxOf(<<>>, <<>>, <<>>, <<>>, 0, 0)]
    IN  IF ~text.json THEN Boom
        ELSE IF sig = <<>>
             THEN Ret(PumpFunTxOf(<<>>, <<>>, <<>>, <<>>, 0, 0))
        ELSE IF acc = <<>>
             THEN Ret(PumpFunTxOf(sig, <<>>, <<>>, <<>>, 0, 0))
        ELSE IF ix = <<>>
             THEN Ret(PumpFunTxOf(sig, acc, <<>>, <<>>, 0, 0))
        ELSE IF inner = <<>>
             THEN Ret(PumpFunTxOf(sig, acc, ix, <<>>, 0, 0))
        ELSE IF cd.panic THEN Boom
        ELSE IF cd.value = <<>>
             THEN Ret(PumpFunTxOf(sig, acc, ix, inner, 0, 0))
        ELSE Ret(PumpFunTxOf(sig, acc, ix, inner,
                             cd.value[1].compute_unit_limit,
                             cd.value[1].compute_unit_price))

\* ------------------------------------------------------------------------
\* Raydium
\* ------------------------------------------------------------------------

\* Pubkey::default().to_string()
DEFAULT_PUBKEY == "default_pubkey"

\* Pubkey::from_str_const panics on a text that is not an address; the
\* addresses of an event are, the placeholder of pubkey_to_string is not.
ValidPubkey(s) == s # "not found"

\* RaydiumMemeTx::get_raydium_swap_instruction: the first top-level match,
\* else the first match of the inner groups in group order.
\* The search that looks at the top-level instructions only.
get_raydium_swap_instruction_TopLevelOnly(json) ==
    IF json.instructions = <<>> THEN <<>>
    ELSE LET ixs == json.instructions[1]
             top == ProgramIndices(ixs, RAYDIUM_LIQUIDITY_POOL_V4_PROGRAM)
         IN  IF top # {} THEN <<ixs[MinOf(top)]>> ELSE <<>>

get_raydium_swap_instruction(json) ==
    IF json.instructions = <<>> THEN <<>>
    ELSE LET ixs == json.instructions[1]
             top == ProgramIndices(ixs, RAYDIUM_LIQUIDITY_POOL_V4_PROGRAM)
         IN  IF top # {} THEN <<ixs[MinOf(top)]>>
             ELSE IF json.inner = <<>> THEN <<>>
             ELSE LET inn == FlattenGroups(json.inner[1])
                      low == ProgramIndices(
                                 inn, RAYDIUM_LIQUIDITY_POOL_V4_PROGRAM)
                  IN  IF low = {} THEN <<>> ELSE <<inn[MinOf(low)]>>

\* RaydiumMemeTx::get_accounts: [panic, value].  The roles are read at
\* fixed indices with no check of the length, so `accounts[i]` panics when
\* the list is too short.
RaydiumGetAccounts(swap_ix) ==
    IF swap_ix.accounts = <<>> THEN [panic |-> FALSE, value |-> <<>>]
    ELSE
      LET accounts == swap_ix.accounts[1]
          k == IF Len(accounts) = RAYDIUM_ACCOUNTS_LEN_SWAP_BASE_IN + 1
                  THEN 4 ELSE 3
          \* the entry at the 0-based index i
          At(i) == pubkey_to_string(accounts[i + 1])
      IN  IF Len(accounts) <= k + 13
          THEN [panic |-> TRUE, value |-> <<>>]
          ELSE [panic |-> FALSE,
                value |-> <<[
                  amm_id |-> At(1),
                  amm_open_orders |-> At(3),
                  amm_target_orders |->
                      IF k = 4 THEN At(4) ELSE DEFAULT_PUBKEY,
                  pool_coin_token_account |-> At(k + 1),
                  pool_pc_token_account |-> At(k + 2),
                  serum_market |-> At(k + 4),
                  serum_bids |-> At(k + 5),
                  serum_asks |-> At(k + 6),
                  serum_event_queue |-> At(k + 7),
                  serum_coin_vault |-> At(k + 8),
                  serum_pc_vault |-> At(k + 9),
                  serum_vault_signer |-> At(k + 10),
                  user_source_token_account |-> At(k + 11),
                  user_destination_token_account |-> At(k + 12),
                  user_source_owner |-> At(k + 13)]>>]

\* unpack_u64 that returns the whole input as the rest.
unpack_u64_RestNotAdvanced(input) ==
    IF Len(input) >= 8
       THEN <<[amount |-> FromLeBytes(SubSeq(input, 1, 8)),
               rest |-> input]>>
       ELSE <<>>

\* RaydiumMemeTx::unpack_u64: <<>> for Err(InvalidInstructionData).
unpack_u64(input) ==
    IF Len(input) >= 8
       THEN <<[amount |-> FromLeBytes(SubSeq(input, 1, 8)),
               rest |-> SubSeq(input, 9, Len(input))]>>
       ELSE <<>>

\* RaydiumMemeTx::get_instruction_data on the "data" string.
get_instruction_data(data) ==
    IF data.kind # "bytes" THEN <<>>
    ELSE IF data.bytes = <<>> THEN <<>>
    ELSE
      LET tag == Head(data.bytes)
          first == unpack_u64(Tail(data.bytes))
          second == unpack_u64(first[1].rest)
      IN  IF tag \notin {RAYDIUM_SWAP_BASE_IN_INSTRUCTION,
                         RAYDIUM_SWAP_BASE_OUT_INSTRUCTION} THEN <<>>
          ELSE IF first = <<>> THEN <<>>
          ELSE IF second = <<>> THEN <<>>
          ELSE IF tag = RAYDIUM_SWAP_BASE_IN_INSTRUCTION
               THEN <<[variant |-> "BaseIn", instruction |-> tag,
                       amount_in |-> first[1].amount,
                       minimum_amount_out |-> second[1].amount]>>
               ELSE <<[variant |-> "BaseOut", instruction |-> tag,
                       max_amount_in |-> first[1].amount,
                       amount_out |-> second[1].amount]>>

\* What one inner instruction adds to (source_amount, dest_amount).
RaydiumTransfer(ix, accounts) ==
    IF ix.programId # <<SPL_TOKEN_PROGRAM>> THEN <<0, 0>>
    ELSE IF ix.amount = <<>> THEN <<0, 0>>
    ELSE IF ~ix.amount[1].ok THEN <<0, 0>>
    ELSE IF ix.source = <<accounts.user_source_token_account>>
         THEN <<ix.amount[1].v, 0>>
    ELSE IF ix.destination = <<accounts.user_destination_token_account>>
         THEN <<0, ix.amount[1].v>>
    ELSE <<0, 0>>

RECURSIVE SumTransfers(_, _)
SumTransfers(ixs, accounts) ==
    IF ixs = <<>> THEN <<0, 0>>
    ELSE LET h == RaydiumTransfer(Head(ixs), accounts)
             r == SumTransfers(Tail(ixs), accounts)
         IN  <<h[1] + r[1], h[2] + r[2]>>

\* RaydiumMemeTx::get_amounts
RaydiumGetAmounts(json, accounts) ==
    IF json.inner = <<>> THEN <<>>
    ELSE LET sums == SumTransfers(FlattenGroups(json.inner[1]), accounts)
         IN  <<[source_amount |-> sums[1], dest_amount |-> sums[2]]>>

\* The marker of a protocol-launched mint, and str::ends_with on texts
\* given as sequences of characters.
PUMP_SUFFIX == <<"p", "u", "m", "p">>
EndsWith(s, suffix) ==
    /\ Len(s) >= Len(suffix)
    /\ SubSeq(s, Len(s) - Len(suffix) + 1, Len(s)) = suffix

\* RaydiumMemeTx::get_and_validate_meme_mint: [panic, value].  `reply` says
\* what get_account_data answers for the pool (amm) and for the user's
\* source-token account (src): status "error" (Err), "bad_layout" (bytes
\* that do not parse) or "ok" with the mint the bytes hold.
get_and_validate_meme_mint(reply, accounts) ==
    LET None == [panic |-> FALSE, value |-> <<>>]
        Boom == [panic |-> TRUE, value |-> <<>>]
        Some(op) == [panic |-> FALSE,
                     value |-> <<[meme_mint |-> reply.amm.mint,
                                  operation |-> op]>>]
    IN  IF ~ValidPubkey(accounts.amm_id) THEN Boom
        ELSE IF reply.amm.status = "error" THEN None
        ELSE IF reply.amm.status = "bad_layout" THEN None
        ELSE IF ~EndsWith(reply.amm.mint, PUMP_SUFFIX) THEN None
        ELSE IF ~ValidPubkey(accounts.user_source_token_account) THEN Boom
        ELSE IF reply.src.status = "error"
             THEN Some(BOT_RAYDIUM_OPERATION_BUY)
        ELSE IF reply.src.status = "bad_layout" THEN Boom
        ELSE IF reply.src.mint = WSOL_MINT
             THEN Some(BOT_RAYDIUM_OPERATION_BUY)
             ELSE Some(BOT_RAYDIUM_OPERATION_SELL)

RaydiumMemeTxOf(sig, acc, ix, inner, trade, limit, price) ==
    [signature |-> sig, accounts |-> acc, ix_data |-> ix,
     inner_ix_data |-> inner, meme_trade_data |-> trade,
     compute_unit_limit |-> limit, compute_unit_price |-> price]

\* RaydiumMemeTx::new: [panic, tx]
RaydiumMemeTxNew(text, reply) ==
    LET sig == get_signature(text)
        swap == get_raydium_swap_instruction(text)
        acc == RaydiumGetAccounts(swap[1])
        trade == get_and_validate_meme_mint(reply, acc.value[1])
        ix == get_instruction_data(swap[1].data)
        inner == RaydiumGetAmounts(text, acc.value[1])
        cd == get_compute_data(text)
        Ret(tx) == [panic |-> FALSE, tx |-> tx]
        Partial(a, i) == Ret(RaydiumMemeTxOf(sig, a, i, <<>>, <<>>, 0, 0))
        Boom == [panic |-> TRUE,
                 tx |-> RaydiumMemeTxOf(<<>>, <<>>, <<>>, <<>>, <<>>, 0, 0)]
    IN  IF ~text.json THEN Boom
        ELSE IF sig = <<>>
             THEN Ret(RaydiumMemeTxOf(<<>>, <<>>, <<>>, <<>>, <<>>, 0, 0))
        ELSE IF swap = <<>> THEN Partial(<<>>, <<>>)
        ELSE IF acc.panic THEN Boom
        ELSE IF acc.value = <<>> THEN Partial(<<>>, <<>>)
        ELSE IF trade.panic THEN Boom
        ELSE IF trade.value = <<>> THEN Partial(acc.value, <<>>)
        ELSE IF ix = <<>> THEN Partial(acc.value, <<>>)
        ELSE IF inner = <<>> THEN Partial(acc.value, ix)
        ELSE IF cd.panic THEN Boom
        ELSE IF cd.value = <<>>
             THEN Ret(RaydiumMemeTxOf(sig, acc.value, ix, inner,
                                      trade.value, 0, 0))
        ELSE Ret(RaydiumMemeTxOf(sig, acc.value, ix, inner, trade.value,
                                 cd.value[1].compute_unit_limit,
                                 cd.value[1].compute_unit_price))

\* ========================================================================
\* Sizing: the amounts written into the swap instruction
\* (pump_fun_tx_send.rs:25-67 and 170-210, raydium_meme_tx_send.rs:108-119)
\*
\* A u64 is [top, v]: the value v, or 2^64 - v when top is set (a value
\* that saturated or wrapped around).
\* ========================================================================
PUMP_FUN_FEES_PERCENT == 1

U64(v) == [top |-> FALSE, v |-> v]
U64_MAX == [top |-> TRUE, v |-> 1]

\* (n as f64 / d as f64).round() as u64 for n >= 0 and d > 0: f64::round
\* rounds half away from zero.
Round(n, d) == (2 * n + d) \div (2 * d)

\* (max_sol as f64 / (sol as f64 / amount as f64)) as u64.  A zero
\* observed amount makes the price infinite or NaN and the quotient 0; a
\* zero observed SOL makes the price 0 and the quotient infinite, which
\* `as u64` saturates, or NaN (0/0), which it turns into 0.
BuyAmount(max_sol, sol, amount) ==
    IF amount = 0 THEN U64(0)
    ELSE IF sol = 0 THEN (IF max_sol = 0 THEN U64(0) ELSE U64_MAX)
    ELSE U64((max_sol * amount) \div sol)

\* fees, slippage and final_max_sol_buy of a Buy.
BuyBound(max_sol, slippage_percent) ==
    max_sol + Round(max_sol * slippage_percent, 100)
            + Round(max_sol * PUMP_FUN_FEES_PERCENT, 100)

\* min_sol_output of a Sell: (amount * (min_sol / amount)).round(), NaN
\* (amount = 0) becoming 0.
SellExpected(amount, min_sol) ==
    IF amount = 0 THEN 0 ELSE Round(amount * min_sol, amount)

\* final_min_sol_output = min_sol_output - slippage - fees in u64: the set
\* of what the build can produce.  A subtraction below 0 panics when
\* overflow checks are compiled in and wraps around when they are not.
SellBound(expected, slippage_percent) ==
    LET slippage == Round(expected * slippage_percent, 100)
        fees == Round(expected * PUMP_FUN_FEES_PERCENT, 100)
    IN  IF slippage + fees <= expected
           THEN {[panic |-> FALSE, value |-> U64(expected - slippage - fees)]}
           ELSE {[panic |-> TRUE, value |-> U64(0)],
                 [panic |-> FALSE,
                  value |-> [top |-> TRUE,
                             v |-> slippage + fees - expected]]}

\* ========================================================================
\* compose_and_send of the two venues and the direct-buy tool, up to the
\* call of the submitter.  Each gives the set of results the build can
\* produce: [kind, tx, order], kind being "panic", "error" (an Err is
\* returned) or "order" (the instruction list goes to the submitter).
\* ========================================================================
\* Addresses the assemblers take from constants.rs, from the signer's key
\* and from get_associated_token_address.
PUMP_FUN_GLOBAL == "pump_fun_global"
PUMP_EVENT_AUTHORITY == "pump_event_authority"
RAYDIUM_AMM_AUTHORITY == "raydium_amm_authority"
SERUM_PROGRAM == "serum_program"
RENT_SYSVAR == "rent_sysvar"
ASSOCIATED_TOKEN_PROGRAM == "associated_token_program"
SIGNER == "signer"
USER_MINT_ATA == "user_mint_ata"
USER_WSOL_ATA == "user_wsol_ata"

\* AccountMeta::new(pubkey, is_signer) / AccountMeta::new_readonly.
AccountMetaNew(pubkey, is_signer) ==
    [pubkey |-> pubkey, is_signer |-> is_signer, is_writable |-> TRUE]
AccountMetaReadonly(pubkey, is_signer) ==
    [pubkey |-> pubkey, is_signer |-> is_signer, is_writable |-> FALSE]

\* The account list of pump_fun_ix in send_pump_fun_tx.
PumpFunSwapAccounts(mint, bonding_curve, associated_bonding_curve, is_buy) ==
    <<AccountMetaReadonly(PUMP_FUN_GLOBAL, FALSE),
      AccountMetaNew(PUMP_FUN_FEE_RECIPIENT, FALSE),
      AccountMetaReadonly(mint, FALSE),
      AccountMetaNew(bonding_curve, FALSE),
      AccountMetaNew(associated_bonding_curve, FALSE),
      AccountMetaNew(USER_MINT_ATA, FALSE),
      AccountMetaNew(SIGNER, TRUE),
      AccountMetaReadonly(SYSTEM_PROGRAM, FALSE),
      AccountMetaReadonly(IF is_buy THEN SPL_TOKEN_PROGRAM
                          ELSE ASSOCIATED_TOKEN_PROGRAM, FALSE),
      AccountMetaReadonly(IF is_buy THEN RENT_SYSVAR
                          ELSE SPL_TOKEN_PROGRAM, FALSE),
      AccountMetaReadonly(PUMP_EVENT_AUTHORITY, FALSE),
      AccountMetaReadonly(PUMP_FUN_PROGRAM, FALSE)>>

\* The account list with the target-orders entry pushed unconditionally.
RaydiumSwapAccounts_AlwaysTargetOrders(acc) ==
    <<AccountMetaReadonly(SPL_TOKEN_PROGRAM, FALSE),
      AccountMetaNew(acc.amm_id, FALSE),
      AccountMetaReadonly(RAYDIUM_AMM_AUTHORITY, FALSE),
      AccountMetaNew(acc.amm_open_orders, FALSE),
      AccountMetaNew(acc.amm_target_orders, FALSE),
      AccountMetaNew(acc.pool_coin_token_account, FALSE),
      AccountMetaNew(acc.pool_pc_token_account, FALSE),
      AccountMetaNew(SERUM_PROGRAM, FALSE),
      AccountMetaNew(acc.serum_market, FALSE),
      AccountMetaNew(acc.serum_bids, FALSE),
      AccountMetaNew(acc.serum_asks, FALSE),
      AccountMetaNew(acc.serum_event_queue, FALSE),
      AccountMetaNew(acc.serum_coin_vault, FALSE),
      AccountMetaNew(acc.serum_pc_vault, FALSE),
      AccountMetaNew(acc.serum_vault_signer, FALSE),
      AccountMetaNew(USER_WSOL_ATA, FALSE),
      AccountMetaNew(USER_MINT_ATA, FALSE),
      AccountMetaNew(SIGNER, TRUE)>>

\* raydium_swap_accounts of RaydiumMemeTxSend::compose_and_send for a Buy:
\* the base accounts, the optional target orders, the pool and Serum
\* accounts, the user's accounts.
RaydiumSwapAccounts(acc) ==
    <<AccountMetaReadonly(SPL_TOKEN_PROGRAM, FALSE),
      AccountMetaNew(acc.amm_id, FALSE),
      AccountMetaReadonly(RAYDIUM_AMM_AUTHORITY, FALSE),
      AccountMetaNew(acc.amm_open_orders, FALSE)>>
    \o (IF acc.amm_target_orders # DEFAULT_PUBKEY
           THEN <<AccountMetaNew(acc.amm_target_orders, FALSE)>>
           ELSE <<>>)
    \o <<AccountMetaNew(acc.pool_coin_token_account, FALSE),
         AccountMetaNew(acc.pool_pc_token_account, FALSE),
         AccountMetaNew(SERUM_PROGRAM, FALSE),
         AccountMetaNew(acc.serum_market, FALSE),
         AccountMetaNew(acc.serum_bids, FALSE),
         AccountMetaNew(acc.serum_asks, FALSE),
         AccountMetaNew(acc.serum_event_queue, FALSE),
         AccountMetaNew(acc.serum_coin_vault, FALSE),
         AccountMetaNew(acc.serum_pc_vault, FALSE),
         AccountMetaNew(acc.serum_vault_signer, FALSE)>>
    \o <<AccountMetaNew(USER_WSOL_ATA, FALSE),
         AccountMetaNew(USER_MINT_ATA, FALSE),
         AccountMetaNew(SIGNER, TRUE)>>

Panicked(tx) == [kind |-> "panic", tx |-> tx, order |-> <<>>]
Refused(tx) == [kind |-> "error", tx |-> tx, order |-> <<>>]
Ordered(tx, k, amount, bound, accounts) ==
    [kind |-> "order", tx |-> tx,
     order |-> <<[kind |-> k, amount |-> amount, bound |-> bound,
                  accounts |-> accounts]>>]

\* PumpFunTxSend::compose_and_send
PumpFunCompose(text, par) ==
    LET new == PumpFunTxNew(text)
        tx == new.tx
        acc == tx.accounts[1]
        ix == tx.ix_data[1]
    IN  IF new.panic THEN {Panicked(<<>>)}
        ELSE IF tx.accounts = <<>> THEN {Refused(<<tx>>)}
        ELSE IF \/ ~ValidPubkey(acc.mint)
                \/ ~ValidPubkey(acc.bonding_curve)
                \/ ~ValidPubkey(acc.associated_bonding_curve)
             THEN {Panicked(<<tx>>)}
        ELSE IF tx.ix_data = <<>> THEN {Refused(<<tx>>)}
        ELSE IF ix.instruction = PUMP_FUN_ACTION_BUY
             THEN IF tx.inner_ix_data = <<>> THEN {Refused(<<tx>>)}
                  ELSE {Ordered(<<tx>>, "pump_fun_buy",
                                BuyAmount(par.max_sol_buy,
                                          tx.inner_ix_data[1].sol,
                                          tx.inner_ix_data[1].amount),
                                U64(BuyBound(par.max_sol_buy,
                                             par.slippage_percent)),
                                PumpFunSwapAccounts(
                                    acc.mint, acc.bonding_curve,
                                    acc.associated_bonding_curve, TRUE))}
        ELSE IF ix.instruction = PUMP_FUN_ACTION_SELL
             THEN {IF b.panic THEN Panicked(<<tx>>)
                   ELSE Ordered(<<tx>>, "pump_fun_sell",
                                U64(ix.amount), b.value,
                                PumpFunSwapAccounts(
                                    acc.mint, acc.bonding_curve,
                                    acc.associated_bonding_curve, FALSE)) :
                      b \in SellBound(SellExpected(ix.amount, ix.sol),
                                      par.slippage_percent)}
        ELSE {Refused(<<tx>>)}

\* The account texts that RaydiumMemeTxSend turns into addresses with
\* Pubkey::from_str_const.
RaydiumWritable(acc) ==
    {acc.amm_id, acc.amm_open_orders, acc.pool_coin_token_account,
     acc.pool_pc_token_account, acc.serum_market, acc.serum_bids,
     acc.serum_asks, acc.serum_event_queue, acc.serum_coin_vault,
     acc.serum_pc_vault, acc.serum_vault_signer}
        \cup (IF acc.amm_target_orders = DEFAULT_PUBKEY
                 THEN {} ELSE {acc.amm_target_orders})

\* compose_and_send without the branch that refuses a Sell.
RaydiumCompose_SellGoesOn(text, reply, par) ==
    LET new == RaydiumMemeTxNew(text, reply)
        tx == new.tx
    IN  IF new.panic THEN {Panicked(<<>>)}
        ELSE IF tx.meme_trade_data = <<>> THEN {Refused(<<tx>>)}
        ELSE IF tx.accounts = <<>> THEN {Refused(<<tx>>)}
        ELSE IF tx.ix_data = <<>> THEN {Refused(<<tx>>)}
        ELSE IF tx.inner_ix_data = <<>> THEN {Refused(<<tx>>)}
        ELSE IF \E a \in RaydiumWritable(tx.accounts[1]) : ~ValidPubkey(a)
             THEN {Panicked(<<tx>>)}
        ELSE {Ordered(<<tx>>, "raydium_swap",
                      U64(par.max_sol_buy), U64(0),
                      RaydiumSwapAccounts(tx.accounts[1]))}

\* RaydiumMemeTxSend::compose_and_send
RaydiumCompose(text, reply, par) ==
    LET new == RaydiumMemeTxNew(text, reply)
        tx == new.tx
    IN  IF new.panic THEN {Panicked(<<>>)}
        ELSE IF tx.meme_trade_data = <<>> THEN {Refused(<<tx>>)}
        ELSE IF tx.meme_trade_data[1].operation = BOT_RAYDIUM_OPERATION_SELL
             THEN {Refused(<<tx>>)}
        ELSE IF tx.accounts = <<>> THEN {Refused(<<tx>>)}
        ELSE IF tx.ix_data = <<>> THEN {Refused(<<tx>>)}
        ELSE IF tx.inner_ix_data = <<>> THEN {Refused(<<tx>>)}
        ELSE IF \E a \in RaydiumWritable(tx.accounts[1]) : ~ValidPubkey(a)
             THEN {Panicked(<<tx>>)}
        ELSE {Ordered(<<tx>>, "raydium_swap",
                      U64(par.max_sol_buy), U64(0),
                      RaydiumSwapAccounts(tx.accounts[1]))}

\* The unit in which the decimal arguments of the tool are written: an
\* argument x stands for the number x / ARG_SCALE.  max_sol is counted in
\* lamports (max_sol * 1_000_000_000 is x / ARG_SCALE lamports) and
\* slippage in percent.
ARG_SCALE == 10

RECURSIVE Pow10(_)
Pow10(n) == IF n = 0 THEN 1 ELSE 10 * Pow10(n - 1)

\* PumpFunTxSend::buy: amount * 10^decimals in u64, for the amounts the
\* model reaches: a saturated amount overflows the product.
BuyAmountWithDecimals(amount, decimals) ==
    IF ~amount.top
       THEN {[panic |-> FALSE, value |-> U64(amount.v * Pow10(decimals))]}
    ELSE IF decimals = 0 THEN {[panic |-> FALSE, value |-> amount]}
    ELSE {[panic |-> TRUE, value |-> U64(0)],
          [panic |-> FALSE,
           value |-> [top |-> TRUE, v |-> amount.v * Pow10(decimals)]]}

\* ToolPumpFunBuy::call down to PumpFunTxSend::buy
ToolCompose(args, db) ==
    LET max_sol_lamports == args.max_sol \div ARG_SCALE
        slippage_bps == (args.slippage * 100) \div ARG_SCALE
        \* (max_sol_lamports as f64 / price_in_sol_lamports) as u64
        amount == IF db.price = 0
                     THEN (IF max_sol_lamports = 0 THEN U64(0) ELSE U64_MAX)
                     ELSE U64(max_sol_lamports \div db.price)
    IN  IF args.max_sol <= 0 THEN {Refused(<<>>)}
        ELSE IF args.slippage < 0 \/ args.slippage > 100 * ARG_SCALE
             THEN {Refused(<<>>)}
        ELSE IF db.status # "found" THEN {Refused(<<>>)}
        ELSE {IF a.panic THEN Panicked(<<>>)
              ELSE Ordered(<<>>, "pump_fun_buy", a.value,
                           U64(BuyBound(max_sol_lamports, slippage_bps)),
                           PumpFunSwapAccounts(
                               db.mint_address, db.bonding_curve,
                               db.associated_bonding_curve, TRUE)) :
                 a \in BuyAmountWithDecimals(amount, db.decimals)}

\* The list with the ATA creation in front for either direction.
InstructionsOf_AlwaysCreatesAta(kind) ==
    <<UserIx("create_ata"), UserIx("swap")>>

\* The instruction list of send_pump_fun_tx / of the Raydium assembler.
InstructionsOf(kind) ==
    IF kind = "pump_fun_sell" THEN <<UserIx("swap")>>
    ELSE <<UserIx("create_ata"), UserIx("swap")>>

\* The task takes result r: it ends on a panic or an Err, and calls
\* bfg9000_send_smart_tx with the instruction list and `units` otherwise.
TakeResult(t, r, u) ==
    /\ decoded' = [decoded EXCEPT ![t] = r.tx]
    /\ order' = [order EXCEPT ![t] = r.order]
    /\ IF r.kind = "order"
          THEN /\ Goto(t, "lock")
               /\ instructions' = [instructions EXCEPT
                                     ![t] = InstructionsOf(r.order[1].kind)]
               /\ supplied' = [supplied EXCEPT
                                 ![t] = InstructionsOf(r.order[1].kind)]
               /\ units' = [units EXCEPT ![t] = u]
               /\ UNCHANGED <<blockhash, lastValid, draftTx, finalTx,
                              elapsed, sleepLeft>>
          ELSE Done(t, IF r.kind = "panic" THEN "Panic" ELSE "Error")
    /\ UNCHANGED <<streamVars, height, serviceVars>>
    /\ UNCHANGED <<payload, params, rpc, toolArgs, dbReply>>

\* The Pump.fun task of an event runs PumpFunTxSend::compose_and_send.
PumpFunComposeAndSend(t) ==
    /\ Alive
    /\ pc[t] = "decode"
    /\ Venue(t) = "pump_fun"
    /\ payload # <<>>
    /\ \E r \in PumpFunCompose(payload[1], params[1]) :
          TakeResult(t, r, DEFAULT_COMPUTE_UNIT_LIMIT)

\* The Raydium task of an event runs RaydiumMemeTxSend::compose_and_send.
RaydiumComposeAndSend(t) ==
    /\ Alive
    /\ pc[t] = "decode"
    /\ Venue(t) = "raydium"
    /\ payload # <<>>
    /\ \E r \in RaydiumCompose(payload[1], rpc[1], params[1]) :
          TakeResult(t, r, IF r.tx = <<>> THEN 0
                           ELSE r.tx[1].compute_unit_limit)

\* The task spawned by ToolPumpFunBuy::call.
ToolPumpFunBuy(t) ==
    /\ Alive
    /\ pc[t] = "tool"
    /\ toolArgs # <<>>
    /\ \E r \in ToolCompose(toolArgs[1], dbReply[1]) :
          TakeResult(t, r, DEFAULT_COMPUTE_UNIT_LIMIT)

\* ========================================================================
\* Payloads, replies and parameters the decode and sizing stage is run on
\* ========================================================================
Ix(pid, accounts, data) ==
    [programId |-> pid, accounts |-> accounts, data |-> data,
     authority |-> <<>>, source |-> <<>>, destination |-> <<>>,
     amount |-> <<>>, lamports |-> <<>>]

\* A parsed spl-token transfer of an inner-instruction group.
TokenTransfer(authority, source, destination, amount) ==
    [Ix(<<SPL_TOKEN_PROGRAM>>, <<>>, NoData) EXCEPT
        !.authority = <<authority>>, !.source = <<source>>,
        !.destination = <<destination>>, !.amount = <<amount>>]

\* A parsed system-program transfer of an inner-instruction group.
NativeTransfer(destination, lamports) ==
    [Ix(<<SYSTEM_PROGRAM>>, <<>>, NoData) EXCEPT
        !.destination = <<destination>>, !.lamports = <<lamports>>]

Parsable(v) == [ok |-> TRUE, v |-> v]
Unparsable == [ok |-> FALSE, v |-> 0]

AccountNames ==
    <<"acct0", "acct1", "acct2", "acct3", "acct4", "acct5", "acct6",
      "acct7", "acct8", "acct9", "acct10", "acct11", "acct12", "acct13",
      "acct14", "acct15", "acct16", "acct17", "acct18">>

\* An account list of n address strings; entry i is the address accti.
AccountList(n) == [i \in 1..n |-> <<AccountNames[i]>>]
\* The same list with a JSON value that is not a string at 0-based index j.
AccountListWithout(n, j) ==
    [i \in 1..n |-> IF i = j + 1 THEN <<>> ELSE <<AccountNames[i]>>]

Text(sig, ixs, inner) ==
    [json |-> TRUE, signature |-> sig, instructions |-> ixs, inner |-> inner]
\* A text that is not JSON.
NotJson ==
    [json |-> FALSE, signature |-> <<>>, instructions |-> <<>>,
     inner |-> <<>>]

Signatures == {<<>>, <<"signature">>}

\* Compute-budget instructions in front of the swap: none, a limit and a
\* price, and the malformed ones.
SetLimitData(u) == Base58(<<COMPUTE_BUDGET_SET_LIMIT_TAG>> \o ToLeBytes(u, 4))
SetPriceData(p) == Base58(<<COMPUTE_BUDGET_SET_PRICE_TAG>> \o ToLeBytes(p, 8))
ObservedLimit == 300
ObservedPrice == 7
ComputePrefixes ==
    {<<>>,
     <<Ix(<<COMPUTE_BUDGET_PROGRAM>>, <<<<>>>>, SetLimitData(ObservedLimit)),
       Ix(<<COMPUTE_BUDGET_PROGRAM>>, <<<<>>>>, SetPriceData(ObservedPrice))>>,
     <<Ix(<<COMPUTE_BUDGET_PROGRAM>>, <<<<>>>>, NoData)>>,
     <<Ix(<<COMPUTE_BUDGET_PROGRAM>>, <<<<>>>>, NotBase58)>>,
     <<Ix(<<COMPUTE_BUDGET_PROGRAM>>, <<<<>>>>, Base58(<<>>))>>,
     <<Ix(<<COMPUTE_BUDGET_PROGRAM>>, <<<<>>>>,
          Base58(<<COMPUTE_BUDGET_SET_LIMIT_TAG, 1, 2>>))>>,
     <<Ix(<<>>, <<>>, NoData)>>}

\* --- Pump.fun events ---
PumpFunData(disc, amount, sol) ==
    Base58(disc \o ToLeBytes(amount, 8) \o ToLeBytes(sol, 8))
ObservedAmount == 500
ObservedSol == 900
ObservedFee == 9
PumpFunDatas ==
    {NoData, NotBase58,
     Base58(SubSeq(PUMP_FUN_ACTION_BUY \o ToLeBytes(ObservedAmount, 8)
                       \o ToLeBytes(ObservedSol, 8), 1, 23)),
     PumpFunData(PUMP_FUN_ACTION_BUY, ObservedAmount, ObservedSol),
     PumpFunData(PUMP_FUN_ACTION_SELL, ObservedAmount, ObservedSol),
     PumpFunData(<<1, 2, 3, 4, 5, 6, 7, 8>>, ObservedAmount, ObservedSol)}
PumpFunAccountLists ==
    {<<>>, <<AccountList(0)>>, <<AccountList(11)>>, <<AccountList(12)>>,
     <<AccountList(13)>>, <<AccountListWithout(12, 2)>>}
\* An innerInstructions array of one group holding the instructions ixs.
Groups(ixs) == << << <<ixs>> >> >>

\* Inner instructions of a Buy (the three transfers), of a Sell, a group
\* without an instructions array, and no innerInstructions at all.
PumpFunInners ==
    {<<>>,
     <<<< <<>> >>>>,
     Groups(<<>>),
     Groups(<<TokenTransfer("acct3", "acct4", "acct5",
                            Parsable(ObservedAmount)),
              NativeTransfer("acct3", ObservedSol),
              NativeTransfer(PUMP_FUN_FEE_RECIPIENT, ObservedFee)>>),
     Groups(<<TokenTransfer("acct6", "acct5", "acct4",
                            Parsable(ObservedAmount)),
              Ix(<<PUMP_FUN_PROGRAM>>, <<AccountList(1)>>, NotBase58)>>)}

PumpFunTexts ==
    {Text(sig, <<pre \o <<Ix(<<PUMP_FUN_PROGRAM>>, acc, data)>>>>, inner) :
        sig \in Signatures, pre \in ComputePrefixes,
        acc \in PumpFunAccountLists, data \in PumpFunDatas,
        inner \in PumpFunInners}

\* --- Raydium events ---
RaydiumData(tag, first, second) ==
    Base58(<<tag>> \o ToLeBytes(first, 8) \o ToLeBytes(second, 8))
RaydiumDatas ==
    {NoData, NotBase58, Base58(<<>>),
     RaydiumData(RAYDIUM_SWAP_BASE_IN_INSTRUCTION, ObservedSol, ObservedAmount),
     RaydiumData(RAYDIUM_SWAP_BASE_OUT_INSTRUCTION, ObservedSol, ObservedAmount),
     Base58(<<RAYDIUM_SWAP_BASE_IN_INSTRUCTION, 1, 2, 3>>),
     RaydiumData(1, ObservedSol, ObservedAmount)}
RaydiumAccountLists ==
    {<<>>, <<AccountList(0)>>, <<AccountList(2)>>, <<AccountList(16)>>,
     <<AccountList(17)>>, <<AccountList(18)>>, <<AccountList(19)>>,
     <<AccountListWithout(17, 1)>>}
\* With the 17-entry layout the user's source-token account is acct14 and
\* the destination acct15; with 18 entries acct15 and acct16.
RaydiumInners ==
    {<<>>,
     Groups(<<>>),
     Groups(<<TokenTransfer("acct16", "acct14", "acct5",
                            Parsable(ObservedSol)),
              TokenTransfer("acct2", "acct4", "acct15",
                            Parsable(ObservedAmount)),
              TokenTransfer("acct2", "acct4", "acct15", Unparsable)>>)}
RaydiumPrefixes ==
    {pre \in ComputePrefixes : Len(pre) # 1 \/ pre[1].data.kind # "not_base58"}

RaydiumTexts ==
    {Text(sig, <<pre \o <<Ix(<<RAYDIUM_LIQUIDITY_POOL_V4_PROGRAM>>,
                             acc, data)>>>>, inner) :
        sig \in Signatures, pre \in RaydiumPrefixes,
        acc \in RaydiumAccountLists, data \in RaydiumDatas,
        inner \in RaydiumInners}

\* Texts with no instructions array, and with neither venue's program.
OtherTexts ==
    {NotJson}
      \cup {Text(sig, <<>>, <<>>) : sig \in Signatures}
      \cup {Text(sig, <<<<Ix(<<SYSTEM_PROGRAM>>, <<>>, NoData)>>>>, <<>>) :
              sig \in Signatures}

\* What get_account_data answers.  A mint is written as its characters.
MemeMint == <<"M", "e", "m", "e", "p", "u", "m", "p">>
OtherMints == {<<"p", "u", "m", "p", "X">>, <<"u", "m", "p">>}
NoMint == <<>>
AmmReplies ==
    {[status |-> "error", mint |-> NoMint],
     [status |-> "bad_layout", mint |-> NoMint],
     [status |-> "ok", mint |-> MemeMint]}
        \cup {[status |-> "ok", mint |-> m] : m \in OtherMints}
SourceReplies ==
    {[status |-> "error", mint |-> ""],
     [status |-> "bad_layout", mint |-> ""],
     [status |-> "ok", mint |-> WSOL_MINT],
     [status |-> "ok", mint |-> "meme_mint"]}
RpcReplies == {[amm |-> a, src |-> s] : a \in AmmReplies, s \in SourceReplies}
\* The pool is a protocol-launched one and the user pays with wrapped SOL.
RpcBuy == [amm |-> [status |-> "ok", mint |-> MemeMint],
           src |-> [status |-> "ok", mint |-> WSOL_MINT]]

\* max_sol_buy (lamports) and slippage_percent as ws_listner.rs:39-50
\* hands them to both pipelines.
Params(b, s) == [max_sol_buy |-> b, slippage_percent |-> s]
DefaultBudget == 1000
DefaultSlippage == 10

\* ------------------------------------------------------------------------
\* Specification of the decode stage: one text frame was dispatched, its
\* two tasks run compose_and_send on the payload up to the submitter.
\* ------------------------------------------------------------------------
Dispatched ==
    /\ clientState = "Streaming"
    /\ backoffLeft = 0
    /\ idleLeft = READ_IDLE_TIMEOUT
    /\ sinceError = RECONNECT_BACKOFF
    /\ conn = 1
    /\ subscribedConn = 1
    /\ closeSentOn = {}
    /\ lastEvent = "text"
    /\ framesRead = 1
    /\ spawned = 1
    /\ pc = [t \in Tasks |-> IF EventOf(t) = 1 THEN "decode" ELSE "idle"]
    /\ supplied = [t \in Tasks |-> <<>>]
    /\ instructions = [t \in Tasks |-> <<>>]
    /\ units = [t \in Tasks |-> 0]
    /\ TaskInit
    /\ toolArgs = <<>>
    /\ dbReply = <<>>
    /\ decoded = [t \in Tasks |-> <<>>]
    /\ order = [t \in Tasks |-> <<>>]

\* A Pump.fun Buy whose inner transfers move `amount` tokens for `sol`.
PumpFunBuyText(amount, sol) ==
    Text(<<"signature">>,
         <<<<Ix(<<PUMP_FUN_PROGRAM>>, <<AccountList(12)>>,
                PumpFunData(PUMP_FUN_ACTION_BUY, amount, sol))>>>>,
         Groups(<<TokenTransfer("acct3", "acct4", "acct5", Parsable(amount)),
                  NativeTransfer("acct3", sol),
                  NativeTransfer(PUMP_FUN_FEE_RECIPIENT, ObservedFee)>>))

\* A Pump.fun Sell declaring `amount` tokens for at least `min_sol`.
PumpFunSellText(amount, min_sol) ==
    Text(<<"signature">>,
         <<<<Ix(<<PUMP_FUN_PROGRAM>>, <<AccountList(12)>>,
                PumpFunData(PUMP_FUN_ACTION_SELL, amount, min_sol))>>>>,
         Groups(<<TokenTransfer("acct6", "acct5", "acct4",
                                Parsable(amount))>>))

\* A Raydium swap with the 17-account layout and both transfers.
RaydiumSwapText ==
    Text(<<"signature">>,
         <<<<Ix(<<RAYDIUM_LIQUIDITY_POOL_V4_PROGRAM>>, <<AccountList(17)>>,
                RaydiumData(RAYDIUM_SWAP_BASE_IN_INSTRUCTION,
                            ObservedSol, ObservedAmount))>>>>,
         Groups(<<TokenTransfer("acct16", "acct14", "acct5",
                                Parsable(ObservedSol)),
                  TokenTransfer("acct2", "acct4", "acct15",
                                Parsable(ObservedAmount))>>))

\* --- Events with several inner-instruction groups ---
\* No group of the payloads holds more instructions than this.
MaxInnerPerGroup == 3

\* An innerInstructions array of the groups gs; a group is <<ixs>>, or <<>>
\* when it has no instructions array.
GroupList(gs) == <<gs>>

\* Raydium swaps (17 accounts: source acct14, destination acct15) whose
\* inner transfers are spread over groups, repeat, match both accounts,
\* or carry no usable amount.
RaydiumTransferGroups ==
    {GroupList(<< <<<<TokenTransfer("acct16", "acct14", "acct5",
                                    Parsable(100)),
                      TokenTransfer("acct2", "acct4", "acct15",
                                    Parsable(30))>>>>,
                  <<>>,
                  <<<<TokenTransfer("acct16", "acct14", "acct5",
                                    Parsable(5)),
                      TokenTransfer("acct2", "acct4", "acct15",
                                    Parsable(7)),
                      TokenTransfer("acct16", "acct14", "acct5",
                                    Unparsable)>>>> >>),
     GroupList(<< <<<<TokenTransfer("acct16", "acct14", "acct15",
                                    Parsable(11)),
                      TokenTransfer("acct2", "acct4", "acct15",
                                    Parsable(3))>>>> >>),
     GroupList(<< <<<<[TokenTransfer("acct16", "acct14", "acct5",
                                     Unparsable) EXCEPT !.amount = <<>>],
                      NativeTransfer("acct15", 4)>>>> >>)}

RaydiumAmountTexts ==
    {[RaydiumSwapText EXCEPT !.inner = g] : g \in RaydiumTransferGroups}

\* Swaps wrapped by an aggregator: the Raydium instruction is found only
\* among the inner instructions, or both at top level and inside.
RaydiumInnerSwap(n) ==
    Ix(<<RAYDIUM_LIQUIDITY_POOL_V4_PROGRAM>>, <<AccountList(n)>>,
       RaydiumData(RAYDIUM_SWAP_BASE_IN_INSTRUCTION,
                   ObservedSol, ObservedAmount))
AggregatorIx == Ix(<<"aggregator_program">>, <<AccountList(2)>>, NoData)
WrappedTexts ==
    {Text(<<"signature">>, <<<<AggregatorIx>>>>,
          GroupList(<< <<>>,
                       <<<<TokenTransfer("acct16", "acct14", "acct5",
                                         Parsable(ObservedSol)),
                           RaydiumInnerSwap(18)>>>>,
                       <<<<RaydiumInnerSwap(17)>>>> >>)),
     Text(<<"signature">>, <<<<AggregatorIx, RaydiumInnerSwap(17)>>>>,
          GroupList(<< <<<<RaydiumInnerSwap(18)>>>> >>)),
     Text(<<"signature">>,
          <<<<AggregatorIx, RaydiumInnerSwap(18), RaydiumInnerSwap(17)>>>>,
          <<>>),
     Text(<<"signature">>, <<<<AggregatorIx>>>>,
          GroupList(<< <<<<AggregatorIx>>>> >>))}

\* Raydium swap data of every length around the two u64 fields.
RaydiumLengthTexts ==
    {[RaydiumSwapText EXCEPT
         !.instructions =
            <<<<Ix(<<RAYDIUM_LIQUIDITY_POOL_V4_PROGRAM>>,
                   <<AccountList(17)>>,
                   Base58(SubSeq(<<RAYDIUM_SWAP_BASE_IN_INSTRUCTION>>
                                   \o ToLeBytes(ObservedSol, 8)
                                   \o ToLeBytes(ObservedAmount, 8)
                                   \o <<1, 2, 3>>, 1, n)))>>>>] :
        n \in {1, 8, 9, 16, 17, 18, 20}}

\* Pump.fun Buys (bonding curve acct3) with every subset of the three
\* inner transfers, an unparsable token amount, and transfers spread over
\* two groups.
PumpFunTokenTransfers ==
    {<<>>,
     <<TokenTransfer("acct3", "acct4", "acct5", Parsable(ObservedAmount))>>,
     <<TokenTransfer("acct3", "acct4", "acct5", Unparsable)>>}
PumpFunSolTransfers == {<<>>, <<NativeTransfer("acct3", ObservedSol)>>}
PumpFunFeeTransfers ==
    {<<>>, <<NativeTransfer(PUMP_FUN_FEE_RECIPIENT, ObservedFee)>>}
PumpFunAmountTexts ==
    {[PumpFunBuyText(ObservedAmount, ObservedSol) EXCEPT
         !.inner = GroupList(<< <<tok \o fee>>, <<>>, <<sol>> >>)] :
        tok \in PumpFunTokenTransfers, sol \in PumpFunSolTransfers,
        fee \in PumpFunFeeTransfers}
      \cup {PumpFunSellText(ObservedAmount, ObservedSol),
            [PumpFunBuyText(ObservedAmount, ObservedSol) EXCEPT
                !.inner = <<>>]}

InitDecode ==
    /\ Dispatched
    /\ params = <<Params(DefaultBudget, DefaultSlippage)>>
    /\ \/ /\ payload \in {<<x>> : x \in PumpFunTexts \cup OtherTexts}
          /\ rpc = <<RpcBuy>>
       \/ /\ payload \in {<<x>> : x \in PumpFunAmountTexts
                                     \cup RaydiumAmountTexts
                                     \cup WrappedTexts
                                     \cup RaydiumLengthTexts}
          /\ rpc = <<RpcBuy>>
       \/ /\ payload \in {<<x>> : x \in RaydiumTexts}
          /\ rpc \in {<<r>> : r \in RpcReplies}

ComposeStep(t) ==
    \/ PumpFunComposeAndSend(t)
    \/ RaydiumComposeAndSend(t)

NextDecode == \E t \in Tasks : ComposeStep(t)

SpecDecode == InitDecode /\ [][NextDecode]_vars

\* ------------------------------------------------------------------------
\* Specification of the sizing stage: well-formed events of both venues
\* under every budget and slippage the listener can be started with, and
\* the calls of the direct-buy tool.
\* ------------------------------------------------------------------------
ObservedPairs == {<<500, 900>>, <<0, 900>>, <<500, 0>>}
DeclaredPairs == {<<500, 900>>, <<7, 50>>, <<1, 1>>, <<0, 5>>}
SizingTexts ==
    {PumpFunBuyText(x[1], x[2]) : x \in ObservedPairs}
      \cup {PumpFunSellText(x[1], x[2]) : x \in DeclaredPairs}
      \cup {RaydiumSwapText}

\* u64 values of max_sol_buy and slippage_percent (ws_listner.rs:39-50).
Budgets == {0, 50, 1000}
Slippages == {0, 10, 99, 100, 150}

\* Arguments of the tool in units of 1 / ARG_SCALE, and what the database
\* answers for the mint.
ToolMaxSols == {-10, 0, 10000}
ToolSlippages == {-10, 0, 5, 100, 1000, 1001, 1500}
ToolArgs == {[max_sol |-> m, slippage |-> sl] :
                m \in ToolMaxSols, sl \in ToolSlippages}
DbReply(status, pr, d) ==
    [status |-> status, price |-> pr, decimals |-> d,
     mint_address |-> "db_mint", bonding_curve |-> "db_bonding_curve",
     associated_bonding_curve |-> "db_associated_bonding_curve"]
DbReplies ==
    {DbReply("missing", 0, 0)}
      \cup {DbReply("found", pr, d) : pr \in {0, 2}, d \in {0, 2}}

\* ToolPumpFunBuy::call has spawned its task; no stream is involved.
ToolCalled ==
    /\ clientState = "NotStarted"
    /\ backoffLeft = 0
    /\ idleLeft = 0
    /\ sinceError = RECONNECT_BACKOFF
    /\ conn = 0
    /\ subscribedConn = 0
    /\ closeSentOn = {}
    /\ lastEvent = "start"
    /\ framesRead = 0
    /\ spawned = 0
    /\ pc = [t \in Tasks |-> IF t = 1 THEN "tool" ELSE "idle"]
    /\ supplied = [t \in Tasks |-> <<>>]
    /\ instructions = [t \in Tasks |-> <<>>]
    /\ units = [t \in Tasks |-> 0]
    /\ TaskInit
    /\ payload = <<>>
    /\ params = <<>>
    /\ rpc = <<>>
    /\ decoded = [t \in Tasks |-> <<>>]
    /\ order = [t \in Tasks |-> <<>>]

InitSizing ==
    \/ /\ Dispatched
       /\ payload \in {<<x>> : x \in SizingTexts}
       /\ rpc = <<RpcBuy>>
       /\ params \in {<<Params(b, sl)>> : b \in Budgets, sl \in Slippages}
    \/ /\ ToolCalled
       /\ toolArgs \in {<<a>> : a \in ToolArgs}
       /\ dbReply \in {<<d>> : d \in DbReplies}

SizingStep(t) ==
    \/ PumpFunComposeAndSend(t)
    \/ RaydiumComposeAndSend(t)
    \/ ToolPumpFunBuy(t)

NextSizing == \E t \in Tasks : SizingStep(t)

SpecSizing == InitSizing /\ [][NextSizing]_vars

\* ------------------------------------------------------------------------
\* Specification of a copied Raydium event end to end: a well-formed swap
\* notification under every answer of the account-data fetches, from
\* compose_and_send through the submitter.
\* ------------------------------------------------------------------------
\* The swap notification preceded by the trader's compute-budget hints.
RaydiumSwapTextWithHints ==
    [RaydiumSwapText EXCEPT
        !.instructions =
            <<<<Ix(<<COMPUTE_BUDGET_PROGRAM>>, <<<<>>>>,
                   SetLimitData(ObservedLimit)),
                Ix(<<COMPUTE_BUDGET_PROGRAM>>, <<<<>>>>,
                   SetPriceData(ObservedPrice))>>
             \o RaydiumSwapText.instructions[1]>>]

InitCopy ==
    /\ Dispatched
    /\ params = <<Params(DefaultBudget, DefaultSlippage)>>
    /\ payload \in {<<RaydiumSwapText>>, <<RaydiumSwapTextWithHints>>}
    /\ rpc \in {<<r>> : r \in RpcReplies}

NextCopy ==
    \/ \E t \in Tasks : ComposeStep(t)
    \/ \E t \in Tasks : SendStep(t)
    \/ Tick
    \/ HeightAdvance

SpecCopy == InitCopy /\ [][NextCopy]_vars

\* ========================================================================
\* Properties of the submitter's confirmation polling
\* ========================================================================

\* The step in which task t's loop condition has just held and its
\* get_bundle_statuses request goes out.
IssuesStatusQuery(t) == pc[t] \in {"poll", "height"} /\ pc'[t] = "status"

\* C1: no bundle-status query is issued once either bound has been passed:
\* whenever a status query goes out, less than 60 s have elapsed since the
\* bundle was sent and the chain's height does not exceed
\* last_valid_block_height.
C1_NoStatusQueryPastEitherBound ==
    [][\A t \in Tasks :
          IssuesStatusQuery(t) =>
              (elapsed[t] < POLL_TIMEOUT /\ height <= lastValid[t])]_vars

\* Task t obtained a bundle id (it reached Submitted) and has returned.
SubmittedAndDone(t) == bundleId[t] # <<>> /\ pc[t] = "done"

\* C2: a submission that reached Submitted ends in success exactly when the
\* relay's status answer was "confirmed", and in every other case (a failing
\* status or block-height query included) in the Timeout error, never in
\* another error.
C2_SubmittedEndsOkOrTimeout ==
    \A t \in Tasks :
        SubmittedAndDone(t) =>
            /\ outcome[t] = "Ok" <=>
                   statusReply[t] \in {"confirmed", "confirmed_no_tx"}
            /\ outcome[t] \in {"Ok", "Timeout"}

\* ========================================================================
\* Properties of the shared Helius handle and of the two venue tasks
\* ========================================================================

\* C3: the guard is released before confirmation polling starts: while a
\* submission polls, a second submission waiting in helius.lock() does not
\* find the guard held by the polling one.
C3_GuardReleasedBeforePolling ==
    \A t, u \in Tasks :
        (Polling(t) /\ pc[u] = "lock") => holder # t

\* The step in which task t ends in failure.
Fails(t) ==
    /\ pc[t] # "done"
    /\ pc'[t] = "done"
    /\ outcome'[t] \in {"Error", "Timeout", "Panic"}

\* C4: a valid text frame spawns exactly the two tasks of its event, and a
\* task that fails never kept the other venue's task of the same event
\* waiting for it: when it fails, its sibling is not blocked in
\* helius.lock() on a guard the failing task holds.
C4_FailingTaskNeverBlocksSibling ==
    [][/\ spawned' # spawned =>
             {t \in Tasks : pc[t] = "idle" /\ pc'[t] = "decode"}
                 = {t \in Tasks : EventOf(t) = spawned'}
       /\ \A t \in Tasks :
             Fails(t) => ~(pc[Sibling(t)] = "lock" /\ holder = t)]_vars

\* ========================================================================
\* Properties of the stream client
\* ========================================================================

\* C5: no connect attempt starts less than 10 s after the error that ended
\* the previous session (or the previous connect attempt).
C5_BackoffBeforeEveryReconnect ==
    clientState = "Connecting" => sinceError >= RECONNECT_BACKOFF

\* C6: once a Close frame was received the client is terminated for good:
\* it never connects, subscribes, reads a frame or dispatches a task again.
C6_CloseTerminatesPermanently ==
    /\ [](lastEvent = "close" => clientState = "Terminated")
    /\ [][clientState = "Terminated" =>
             /\ clientState' = "Terminated"
             /\ UNCHANGED <<conn, subscribedConn, closeSentOn, framesRead,
                            spawned, lastEvent>>]_vars

\* A Close frame arrived while a dispatched task was still decoding.
C6_Witness ==
    /\ clientState = "Terminated"
    /\ lastEvent = "close"
    /\ \E t \in Tasks : pc[t] = "decode"

\* The step in which the 20 s read timeout is observed.
IdleTimeoutStep ==
    /\ clientState = "Streaming"
    /\ idleLeft = 0
    /\ lastEvent' = "timeout"
    /\ streamVars' # streamVars

\* C7: an elapsed 20 s read leaves the session Streaming on the same
\* connection (no close sent, no reconnect, no re-subscribe, no task
\* dispatched), and the session leaves Streaming only on a frame read
\* error, a text frame that is not valid UTF-8, or a Close frame.
C7_IdleTimeoutKeepsStreaming ==
    [][/\ IdleTimeoutStep =>
             /\ clientState' = "Streaming"
             /\ UNCHANGED <<conn, subscribedConn, closeSentOn, framesRead,
                            spawned, pc>>
       /\ (clientState = "Streaming" /\ clientState' # "Streaming") =>
             lastEvent' \in {"read_error", "bad_utf8", "close"}]_vars

\* The timeout has just been observed on the first connection: still
\* Streaming, nothing closed.
C7_Witness ==
    /\ clientState = "Streaming"
    /\ lastEvent = "timeout"
    /\ idleLeft = READ_IDLE_TIMEOUT
    /\ conn = 1
    /\ closeSentOn = {}

\* C8: a frame is read or a task dispatched only on a connection on which
\* the subscription request succeeded, the session is Streaming only on
\* such a connection, and a failed subscription request leads back to
\* connecting without entering Streaming.
C8_SubscribeBeforeStreaming ==
    [][/\ (framesRead' # framesRead \/ spawned' # spawned) =>
             (conn > 0 /\ subscribedConn = conn)
       /\ clientState' = "Streaming" => (conn' > 0 /\ subscribedConn' = conn')
       /\ (clientState = "Subscribing" /\ lastEvent' = "subscribe_failed") =>
             clientState' = "Connecting"]_vars

\* A text frame was dispatched on the second connection, after the first
\* one was closed by the client.
C8_Witness ==
    /\ lastEvent = "text"
    /\ conn = 2
    /\ subscribedConn = 2
    /\ closeSentOn = {1}

\* ========================================================================
\* Properties of the submission state machine and of its transactions
\* ========================================================================

\* The phase of §4.4 a task is in, read off its position in the code.
Phase(t) ==
    CASE outcome[t] = "Ok" -> "Confirmed"
      [] outcome[t] = "Timeout" -> "TimedOut"
      [] outcome[t] \in {"Error", "Panic"} -> "Failed"
      [] pc[t] = "estimate" -> "Draft"
      [] pc[t] = "build_final" -> "FeeEstimated"
      [] pc[t] = "send" -> "Final"
      [] Polling(t) -> "Submitted"
      [] OTHER -> "None"

PhaseSteps ==
    {<<"None", "Draft">>, <<"Draft", "FeeEstimated">>,
     <<"FeeEstimated", "Final">>, <<"Final", "Submitted">>,
     <<"Submitted", "Confirmed">>, <<"Submitted", "TimedOut">>}
        \cup {<<ph, "Failed">> :
                ph \in {"None", "Draft", "FeeEstimated", "Final", "Submitted"}}

FeeFailed(t) == feeReply[t] # <<>> /\ feeReply[t][1].status # "ok"

IsTip(ix) == ix.kind = "tip"
IsComputeBudget(ix) == ix.kind \in {"cu_price", "cu_limit"}
CountTips(seq) == Cardinality({i \in 1..Len(seq) : IsTip(seq[i])})
CountComputeBudget(seq) ==
    Cardinality({i \in 1..Len(seq) : IsComputeBudget(seq[i])})

\* C10: the draft is the caller's list followed by the tip and holds no
\* compute-budget instruction; the final transaction is
\* [set-compute-unit-price(estimate), set-compute-unit-limit(units)]
\* followed by the caller's list in its order followed by the same tip,
\* the tip occurring once; both are signed with the same blockhash.
C10_DraftAndFinalContents ==
    \A t \in Tasks :
        /\ draftTx[t] # <<>> =>
              LET d == draftTx[t][1].ixs
                  n == Len(supplied[t])
              IN  /\ Len(d) = n + 1
                  /\ SubSeq(d, 1, n) = supplied[t]
                  /\ d[n + 1].kind = "tip"
                  /\ d[n + 1].name \in TipAccounts
                  /\ d[n + 1].value = TIP_AMOUNT
                  /\ CountComputeBudget(d) = 0
        /\ finalTx[t] # <<>> =>
              LET f == finalTx[t][1].ixs
                  d == draftTx[t][1].ixs
              IN  /\ draftTx[t] # <<>>
                  /\ f = <<SetComputeUnitPrice(feeReply[t][1].price),
                           SetComputeUnitLimit(units[t])>> \o d
                  /\ CountTips(f) = 1
                  /\ finalTx[t][1].blockhash = draftTx[t][1].blockhash

\* A final transaction was built for a caller's list of two different
\* instructions.
C10_Witness ==
    \E t \in Tasks :
        /\ finalTx[t] # <<>>
        /\ Len(supplied[t]) = 2
        /\ supplied[t][1] # supplied[t][2]

\* ========================================================================
\* Properties of the decode layer
\* ========================================================================

\* Task t has run new() on a text with a signature; from_str succeeded.
SwapOf(text) == get_raydium_swap_instruction(text)

\* PumpFunTx::new or RaydiumMemeTx::new panicked in task t: the task
\* unwound before any result was returned.
NewPanicked(t) ==
    pc[t] = "done" /\ outcome[t] = "Panic" /\ decoded[t] = <<>>

\* C11: whatever text the feed delivers, PumpFunTx::new and
\* RaydiumMemeTx::new return a result and never panic.
C11_DecodeNeverPanics == \A t \in Tasks : ~NewPanicked(t)

\* The fields of a result in the order of the stages that fill them.
StagesOf(t, tx) ==
    IF Venue(t) = "pump_fun"
       THEN <<tx.signature, tx.accounts, tx.ix_data, tx.inner_ix_data>>
       ELSE <<tx.signature, tx.accounts, tx.ix_data, tx.inner_ix_data,
              tx.meme_trade_data>>

PrefixPopulated(t, tx) ==
    LET st == StagesOf(t, tx) IN
    /\ \A i, j \in 1..4 : (i < j /\ st[j] # <<>>) => st[i] # <<>>
    /\ Venue(t) = "raydium" => (st[5] # <<>> <=> st[4] # <<>>)
    /\ (tx.compute_unit_limit # 0 \/ tx.compute_unit_price # 0) =>
          \A i \in 1..Len(st) : st[i] # <<>>

\* C12: every result of decoding is prefix-populated: a later stage's
\* field is present only if the earlier ones are, the Raydium trade data
\* comes with the inner amounts, the compute hints are non-zero only in a
\* complete result, and a text without a signature gives the default
\* result (every field absent, hints 0).
C12_ResultIsPrefixPopulated ==
    \A t \in Tasks :
        decoded[t] # <<>> =>
            /\ PrefixPopulated(t, decoded[t][1])
            /\ payload[1].signature = <<>> =>
                  /\ \A i \in 1..Len(StagesOf(t, decoded[t][1])) :
                        StagesOf(t, decoded[t][1])[i] = <<>>
                  /\ decoded[t][1].compute_unit_limit = 0
                  /\ decoded[t][1].compute_unit_price = 0

\* A Raydium result that stopped after the instruction data: signature,
\* accounts and instruction data present, inner amounts, trade data and
\* compute hints absent, although the payload carries compute hints.
C12_Witness ==
    \E t \in Tasks :
        /\ Venue(t) = "raydium"
        /\ decoded[t] # <<>>
        /\ decoded[t][1].ix_data # <<>>
        /\ decoded[t][1].inner_ix_data = <<>>
        /\ decoded[t][1].compute_unit_limit = 0
        /\ ~get_compute_data(payload[1]).panic
        /\ get_compute_data(payload[1]).value # <<>>
        /\ get_compute_data(payload[1]).value[1].compute_unit_limit # 0

\* The account list of the first top-level Pump.fun instruction of the
\* payload, <<>> when there is none or it is not an array.
PumpFunAccountsOf(text) ==
    IF FindPumpFunInstruction(text) = <<>> THEN <<>>
    ELSE FindPumpFunInstruction(text)[1].accounts

\* C13: when the account list of the first top-level Pump.fun instruction
\* has a length other than 12, the result has no accounts, whatever the
\* other fields are; when it has 12 entries, mint, bonding curve and
\* associated bonding curve are the entries at indices 2, 3 and 4.
C13_PumpFunAccountsNeedTwelve ==
    \A t \in Tasks :
        (/\ Venue(t) = "pump_fun"
         /\ decoded[t] # <<>>
         /\ payload[1].signature # <<>>
         /\ PumpFunAccountsOf(payload[1]) # <<>>) =>
            LET accounts == PumpFunAccountsOf(payload[1])[1]
                got == decoded[t][1].accounts
            IN  IF Len(accounts) # 12
                   THEN got = <<>>
                   ELSE /\ got # <<>>
                        /\ got[1].mint = pubkey_to_string(accounts[2 + 1])
                        /\ got[1].bonding_curve
                              = pubkey_to_string(accounts[3 + 1])
                        /\ got[1].associated_bonding_curve
                              = pubkey_to_string(accounts[4 + 1])

\* A list of 13 addresses in front of valid Buy data gave no accounts.
C13_Witness ==
    \E t \in Tasks :
        /\ Venue(t) = "pump_fun"
        /\ decoded[t] # <<>>
        /\ decoded[t][1].signature # <<>>
        /\ decoded[t][1].accounts = <<>>
        /\ PumpFunAccountsOf(payload[1]) = <<AccountList(13)>>
        /\ get_pump_fun_data(payload[1]) # <<>>
        /\ payload[1].inner # <<>>

\* C14: for a Raydium swap instruction with fewer than 17 accounts (the
\* empty list included) the account extraction returns absent: the task
\* does not panic and its result has no accounts.
C14_RaydiumShortListGivesAbsent ==
    \A t \in Tasks :
        (/\ Venue(t) = "raydium"
         /\ pc[t] = "done"
         /\ payload[1].json
         /\ payload[1].signature # <<>>
         /\ SwapOf(payload[1]) # <<>>
         /\ SwapOf(payload[1])[1].accounts # <<>>
         /\ Len(SwapOf(payload[1])[1].accounts[1])
                < RAYDIUM_ACCOUNTS_LEN_SWAP_BASE_IN) =>
            /\ outcome[t] # "Panic"
            /\ decoded[t] # <<>>
            /\ decoded[t][1].accounts = <<>>

\* ========================================================================
\* Properties of order sizing
\* ========================================================================

\* Task t has run its order path to the point where it either gave up or
\* handed an instruction list to the submitter.
Composed(t) == pc[t] \notin {"idle", "decode", "tool"}

\* The user's budget (lamports) and slippage (numerator and denominator
\* of the percent value) the order path of the state was started with.
IsToolCall == toolArgs # <<>>
UserBudget ==
    IF IsToolCall THEN toolArgs[1].max_sol \div ARG_SCALE
    ELSE params[1].max_sol_buy
UserSlippageNum ==
    IF IsToolCall THEN toolArgs[1].slippage ELSE params[1].slippage_percent
UserSlippageDen == IF IsToolCall THEN ARG_SCALE ELSE 1
BadSizingInput ==
    \/ UserSlippageNum < 0
    \/ UserSlippageNum > 100 * UserSlippageDen
    \/ IF IsToolCall THEN toolArgs[1].max_sol <= 0
       ELSE params[1].max_sol_buy <= 0

\* C15: on every order path a slippage percent outside [0,100] or a
\* budget of 0 or less ends the path with an error and without an order:
\* no instruction list is built and nothing is handed to the submitter.
C15_BadSizingInputRejected ==
    \A t \in Tasks :
        (Composed(t) /\ BadSizingInput) =>
            /\ order[t] = <<>>
            /\ outcome[t] = "Error"
            /\ instructions[t] = <<>>

\* C16: the max-spend bound of every Pump.fun Buy, copied or bought
\* through the tool, is budget + round(budget * s / 100)
\* + round(budget * 1%) for the user's budget and slippage percent s in
\* [0,100].
C16_BuyBoundFromBudgetAndSlippage ==
    \A t \in Tasks :
        (/\ order[t] # <<>>
         /\ order[t][1].kind = "pump_fun_buy"
         /\ ~BadSizingInput) =>
            order[t][1].bound =
                U64(UserBudget
                    + Round(UserBudget * UserSlippageNum,
                            100 * UserSlippageDen)
                    + Round(UserBudget * PUMP_FUN_FEES_PERCENT, 100))

\* The declared amount and minimum output of the copied Sell of task t.
IsCopiedSell(t) ==
    /\ Venue(t) = "pump_fun"
    /\ Composed(t)
    /\ payload # <<>>
    /\ get_pump_fun_data(payload[1]) # <<>>
    /\ get_pump_fun_data(payload[1])[1].instruction = PUMP_FUN_ACTION_SELL

\* C17: a copied Pump.fun Sell with slippage s in [0,100] gives an order
\* with the declared amount a and the minimum output
\* E - round(E * s / 100) - round(E * 1%), E = a * (m / a), an unsigned
\* integer between 0 and E: the subtraction does not underflow.
C17_SellBoundNeverUnderflows ==
    \A t \in Tasks :
        (/\ IsCopiedSell(t)
         /\ params[1].slippage_percent \in 0..100) =>
            LET d == get_pump_fun_data(payload[1])[1]
                E == SellExpected(d.amount, d.sol)
                b == E - Round(E * params[1].slippage_percent, 100)
                       - Round(E * PUMP_FUN_FEES_PERCENT, 100)
            IN  /\ order[t] # <<>>
                /\ order[t][1].kind = "pump_fun_sell"
                /\ order[t][1].amount = U64(d.amount)
                /\ b \in 0..E
                /\ order[t][1].bound = U64(b)

\* ========================================================================
\* Properties of the Raydium classification
\* ========================================================================

\* An account-data fetch of the classification failed: the one of the AMM
\* pool account, or, the pool being a protocol-launched one, the one of
\* the user's source-token account.
FetchFailed ==
    /\ rpc # <<>>
    /\ \/ rpc[1].amm.status = "error"
       \/ /\ rpc[1].amm.status = "ok"
          /\ EndsWith(rpc[1].amm.mint, PUMP_SUFFIX)
          /\ rpc[1].src.status = "error"

\* C18: when an account-data fetch of the Raydium classification fails,
\* the detection is aborted: the result carries no trade data (no
\* operation is assumed), and no order is built or submitted for the
\* event.
C18_FetchFailureAbortsDetection ==
    \A t \in Tasks :
        (Venue(t) = "raydium" /\ FetchFailed) =>
            /\ decoded[t] # <<>> => decoded[t][1].meme_trade_data = <<>>
            /\ order[t] = <<>>
            /\ bundlesSent[t] = 0

\* C19: Raydium trade data is returned only when the text of the pool's
\* quote-vault mint ends with "pump"; the operation is then Buy iff the
\* mint of the user's source-token account is the WSOL mint and Sell
\* otherwise, and meme_mint is the quote-vault mint.
C19_TradeDataClassification ==
    \A t \in Tasks :
        (/\ Venue(t) = "raydium"
         /\ decoded[t] # <<>>
         /\ decoded[t][1].meme_trade_data # <<>>) =>
            LET td == decoded[t][1].meme_trade_data[1] IN
            /\ rpc[1].amm.status = "ok"
            /\ EndsWith(rpc[1].amm.mint, PUMP_SUFFIX)
            /\ td.meme_mint = rpc[1].amm.mint
            /\ td.operation \in {BOT_RAYDIUM_OPERATION_BUY,
                                  BOT_RAYDIUM_OPERATION_SELL}
            /\ td.operation = BOT_RAYDIUM_OPERATION_BUY <=>
                  (rpc[1].src.status = "ok" /\ rpc[1].src.mint = WSOL_MINT)

\* The event of task t was classified as a Raydium Sell.
ClassifiedSell(t) ==
    /\ Venue(t) = "raydium"
    /\ decoded[t] # <<>>
    /\ decoded[t][1].meme_trade_data # <<>>
    /\ decoded[t][1].meme_trade_data[1].operation
          = BOT_RAYDIUM_OPERATION_SELL

\* C20: a Raydium event classified as Sell ends compose_and_send with an
\* error: no instruction is built, nothing is passed to the submitter, and
\* no blockhash, fee-estimate or bundle request is made for it.
C20_SellIsRefused ==
    \A t \in Tasks :
        ClassifiedSell(t) =>
            /\ pc[t] = "done"
            /\ outcome[t] = "Error"
            /\ order[t] = <<>>
            /\ instructions[t] = <<>>
            /\ supplied[t] = <<>>
            /\ blockhash[t] = <<>>
            /\ draftTx[t] = <<>>
            /\ feeReply[t] = <<>>
            /\ finalTx[t] = <<>>
            /\ bundlesSent[t] = 0

\* A swap whose source-token account holds another mint than WSOL was
\* decoded completely and refused.
C20_Witness ==
    \E t \in Tasks :
        /\ ClassifiedSell(t)
        /\ decoded[t][1].inner_ix_data # <<>>
        /\ rpc[1].src.mint # WSOL_MINT
        /\ pc[t] = "done"

\* ========================================================================
\* Properties of the assembled instructions
\* ========================================================================

\* Task t handed a Raydium swap instruction to the submitter.
RaydiumOrdered(t) ==
    order[t] # <<>> /\ order[t][1].kind = "raydium_swap"

\* The target-orders role was read from the observed swap.
TargetOrdersPresent(t) ==
    decoded[t][1].accounts[1].amm_target_orders # DEFAULT_PUBKEY

\* The list ends with the user's source token account, the user's
\* destination token account and the owner, the owner being the only
\* signer.
EndsWithUserAccounts(a) ==
    /\ Len(a) >= 3
    /\ a[Len(a) - 2].pubkey = USER_WSOL_ATA
    /\ a[Len(a) - 1].pubkey = USER_MINT_ATA
    /\ a[Len(a)].pubkey = SIGNER
    /\ {i \in 1..Len(a) : a[i].is_signer} = {Len(a)}

\* C21 as stated: the emitted Raydium swap instruction has 16 accounts
\* when the target-orders role is absent and 17 when it is present, and
\* ends with the user's source account, destination account and the
\* owner, the owner being the only signer.
C21_SixteenOrSeventeenAccounts ==
    \A t \in Tasks :
        RaydiumOrdered(t) =>
            /\ Len(order[t][1].accounts)
                  = (IF TargetOrdersPresent(t) THEN 17 ELSE 16)
            /\ EndsWithUserAccounts(order[t][1].accounts)

\* C21 amended: the emitted Raydium swap instruction has 17 accounts
\* when the target-orders role is absent and 18 when it is present, and
\* ends with the user's source account, destination account and the
\* owner, the owner being the only signer.
C21_SeventeenOrEighteenAccounts ==
    \A t \in Tasks :
        RaydiumOrdered(t) =>
            /\ Len(order[t][1].accounts)
                  = (IF TargetOrdersPresent(t) THEN 18 ELSE 17)
            /\ EndsWithUserAccounts(order[t][1].accounts)

\* A swap observed with the target-orders account was copied.
C21_Witness ==
    \E t \in Tasks : RaydiumOrdered(t) /\ TargetOrdersPresent(t)

\* Task t handed a Pump.fun instruction to the submitter.
PumpFunOrdered(t) ==
    order[t] # <<>> /\ order[t][1].kind \in {"pump_fun_buy", "pump_fun_sell"}

\* The mint, bonding curve and associated bonding curve the order of task
\* t is for: those of the copied event, or those the database holds.
VenueRoles(t) ==
    IF IsToolCall
       THEN <<dbReply[1].mint_address, dbReply[1].bonding_curve,
              dbReply[1].associated_bonding_curve>>
       ELSE <<decoded[t][1].accounts[1].mint,
              decoded[t][1].accounts[1].bonding_curve,
              decoded[t][1].accounts[1].associated_bonding_curve>>

\* C22: for both directions the emitted Pump.fun instruction has exactly
\* 12 accounts in the order global config, fee recipient, mint, bonding
\* curve, associated bonding curve, user's associated account, signer,
\* system program, (token program, rent) for Buy or (associated-token
\* program, token program) for Sell, event authority, program id, with
\* exactly one signer; the list passed to the submitter is
\* [ATA creation, swap] for Buy and [swap] for Sell.
C22_PumpFunInstructionLayout ==
    \A t \in Tasks :
        PumpFunOrdered(t) =>
            LET a == order[t][1].accounts
                buy == order[t][1].kind = "pump_fun_buy"
            IN  /\ Len(a) = 12
                /\ [i \in 1..Len(a) |-> a[i].pubkey]
                     = <<PUMP_FUN_GLOBAL, PUMP_FUN_FEE_RECIPIENT>>
                       \o VenueRoles(t)
                       \o <<USER_MINT_ATA, SIGNER, SYSTEM_PROGRAM>>
                       \o (IF buy
                              THEN <<SPL_TOKEN_PROGRAM, RENT_SYSVAR>>
                              ELSE <<ASSOCIATED_TOKEN_PROGRAM,
                                     SPL_TOKEN_PROGRAM>>)
                       \o <<PUMP_EVENT_AUTHORITY, PUMP_FUN_PROGRAM>>
                /\ Cardinality({i \in 1..Len(a) : a[i].is_signer}) = 1
                /\ a[7].is_signer
                /\ supplied[t] = (IF buy
                                    THEN <<UserIx("create_ata"),
                                           UserIx("swap")>>
                                    ELSE <<UserIx("swap")>>)

\* A copied Sell reached the submitter with its one instruction.
C22_Witness ==
    \E t \in Tasks :
        /\ PumpFunOrdered(t)
        /\ order[t][1].kind = "pump_fun_sell"
        /\ pc[t] = "lock"

\* The text pubkey_to_string puts in place of an entry that is not a string.
Placeholder == pubkey_to_string(<<>>)

\* C23: absent data of a decoded result never reaches sizing or assembly
\* as an exception: once new() has returned its result, compose_and_send
\* either stops with an error or builds its instruction from account
\* values that were strings in the event; it does not panic and hands no
\* placeholder account to the assembler.
C23_AbsentDataIsAnErrorValue ==
    \A t \in Tasks :
        decoded[t] # <<>> =>
            /\ outcome[t] # "Panic"
            /\ order[t] # <<>> =>
                  \A i \in 1..Len(order[t][1].accounts) :
                      order[t][1].accounts[i].pubkey # Placeholder

\* ========================================================================
\* Properties of the Raydium and Pump.fun decoders
\* ========================================================================

\* The account list of the swap instruction the Raydium task decoded.
ObservedSwapAccounts == SwapOf(payload[1])[1].accounts[1]

\* C24: the base offset of the account roles is 3 when the swap
\* instruction has 17 accounts and 4 for every other count: the roles are
\* the entries at base + 1 .. base + 13, and the target-orders role is
\* read, at index 4, exactly when the base offset is 4.
C24_BaseOffsetByAccountCount ==
    \A t \in Tasks :
        (/\ Venue(t) = "raydium"
         /\ decoded[t] # <<>>
         /\ decoded[t][1].accounts # <<>>) =>
            LET L == ObservedSwapAccounts
                base == IF Len(L) = RAYDIUM_ACCOUNTS_LEN_SWAP_BASE_IN
                           THEN 3 ELSE 4
                acc == decoded[t][1].accounts[1]
            IN  /\ acc.pool_coin_token_account
                      = pubkey_to_string(L[base + 1 + 1])
                /\ acc.pool_pc_token_account
                      = pubkey_to_string(L[base + 2 + 1])
                /\ acc.serum_market = pubkey_to_string(L[base + 4 + 1])
                /\ acc.user_source_token_account
                      = pubkey_to_string(L[base + 11 + 1])
                /\ acc.user_destination_token_account
                      = pubkey_to_string(L[base + 12 + 1])
                /\ acc.user_source_owner
                      = pubkey_to_string(L[base + 13 + 1])
                /\ IF base = 4
                      THEN acc.amm_target_orders = pubkey_to_string(L[4 + 1])
                      ELSE acc.amm_target_orders = DEFAULT_PUBKEY

\* A token transfer with a parsable amount.
IsCountedTransfer(ix) ==
    /\ ix.programId = <<SPL_TOKEN_PROGRAM>>
    /\ ix.amount # <<>>
    /\ ix.amount[1].ok

\* The sum of the amounts of the transfers of ixs leaving account a.
RECURSIVE SumFromSource(_, _)
SumFromSource(ixs, a) ==
    IF ixs = <<>> THEN 0
    ELSE (IF IsCountedTransfer(Head(ixs)) /\ Head(ixs).source = <<a>>
             THEN Head(ixs).amount[1].v ELSE 0)
         + SumFromSource(Tail(ixs), a)

\* The sum of the amounts of the transfers of ixs arriving at account a.
RECURSIVE SumToDestination(_, _)
SumToDestination(ixs, a) ==
    IF ixs = <<>> THEN 0
    ELSE (IF IsCountedTransfer(Head(ixs)) /\ Head(ixs).destination = <<a>>
             THEN Head(ixs).amount[1].v ELSE 0)
         + SumToDestination(Tail(ixs), a)

\* C25: source_amount is the sum of the amounts of all inner token
\* transfers whose source is the user's source account and dest_amount
\* the sum of those whose destination is the user's destination account,
\* over every group; a transfer matching both counts in both sums, one
\* without a parsable amount in neither.
C25_RaydiumAmountsAreSums ==
    \A t \in Tasks :
        (/\ Venue(t) = "raydium"
         /\ decoded[t] # <<>>
         /\ decoded[t][1].inner_ix_data # <<>>) =>
            LET acc == decoded[t][1].accounts[1]
                ixs == FlattenGroups(payload[1].inner[1])
            IN  /\ decoded[t][1].inner_ix_data[1].source_amount
                      = SumFromSource(ixs, acc.user_source_token_account)
                /\ decoded[t][1].inner_ix_data[1].dest_amount
                      = SumToDestination(
                            ixs, acc.user_destination_token_account)

IsRaydiumSwap(ix) == ix.programId = <<RAYDIUM_LIQUIDITY_POOL_V4_PROGRAM>>

\* The positions <<g, j>> of the Raydium instructions inside the inner
\* groups: instruction j of group g.
InnerSwapPositions(json) ==
    IF json.inner = <<>> THEN {}
    ELSE LET gs == json.inner[1] IN
         {p \in (1..Len(gs)) \X (1..MaxInnerPerGroup) :
             /\ gs[p[1]] # <<>>
             /\ p[2] <= Len(gs[p[1]][1])
             /\ IsRaydiumSwap(gs[p[1]][1][p[2]])}

\* Position p comes no later than q in group order.
NoLaterThan(p, q) == p[1] < q[1] \/ (p[1] = q[1] /\ p[2] <= q[2])

\* The instruction the claim says is returned: <<ix>>, or <<>> for none.
ExpectedSwap(json) ==
    LET ixs == json.instructions[1]
        top == {i \in 1..Len(ixs) : IsRaydiumSwap(ixs[i])}
        inn == InnerSwapPositions(json)
    IN  IF top # {}
           THEN <<ixs[CHOOSE i \in top : \A j \in top : i <= j]>>
        ELSE IF inn # {}
           THEN LET p == CHOOSE x \in inn : \A y \in inn : NoLaterThan(x, y)
                IN  <<json.inner[1][p[1]][1][p[2]]>>
        ELSE <<>>

\* C26: the swap instruction the Raydium decoder works on is the first
\* top-level instruction of the Raydium pool program when there is one,
\* and otherwise the first such instruction among the inner groups in
\* group order: a swap found only in the inner instructions is located,
\* and a top-level match takes precedence over an inner one.
C26_TopLevelThenInner ==
    \A t \in Tasks :
        (/\ Venue(t) = "raydium"
         /\ decoded[t] # <<>>
         /\ payload[1].signature # <<>>
         /\ payload[1].instructions # <<>>) =>
            LET ix == ExpectedSwap(payload[1]) IN
            /\ get_raydium_swap_instruction(payload[1]) = ix
            /\ IF ix = <<>>
                  THEN decoded[t][1].accounts = <<>>
                  ELSE decoded[t][1].accounts
                          = RaydiumGetAccounts(ix[1]).value

\* A swap that appears only inside the inner instructions was decoded.
C26_Witness ==
    \E t \in Tasks :
        /\ Venue(t) = "raydium"
        /\ decoded[t] # <<>>
        /\ decoded[t][1].accounts # <<>>
        /\ \A i \in 1..Len(payload[1].instructions[1]) :
               ~IsRaydiumSwap(payload[1].instructions[1][i])
        /\ InnerSwapPositions(payload[1]) # {}

\* The values the inner instructions ixs carry for the three roles of a
\* Pump.fun trade on bonding curve bc.
TokenAmountsOf(ixs, bc) ==
    {ixs[i].amount[1].v : i \in {j \in 1..Len(ixs) :
        /\ ixs[j].programId = <<SPL_TOKEN_PROGRAM>>
        /\ ixs[j].authority = <<bc>>
        /\ ixs[j].amount # <<>>
        /\ ixs[j].amount[1].ok}}
LamportsTo(ixs, dest) ==
    {ixs[i].lamports[1] : i \in {j \in 1..Len(ixs) :
        /\ ixs[j].programId = <<SYSTEM_PROGRAM>>
        /\ ixs[j].destination = <<dest>>
        /\ ixs[j].lamports # <<>>}}

\* v is the one value of the set S, or 0 when S is empty.
TheValueOr0(v, S) == IF S = {} THEN v = 0 ELSE S = {v}

\* The Pump.fun task decoded the payload up to the inner amounts stage.
ReachedInnerStage(t) ==
    /\ Venue(t) = "pump_fun"
    /\ decoded[t] # <<>>
    /\ decoded[t][1].ix_data # <<>>

\* C27: the three observed values of a Pump.fun event are independent:
\* the token amount is that of the token transfer whose authority is the
\* bonding curve, the SOL amount that of the native transfer to the
\* bonding curve, the fee that of the native transfer to the fee
\* recipient, each 0 when its own transfer is absent or unparsable
\* whatever the other two are; the result is absent only when the
\* innerInstructions array is missing, so a Sell yields (0, 0, 0).
C27_InnerAmountsIndependent ==
    \A t \in Tasks :
        ReachedInnerStage(t) =>
            IF payload[1].inner = <<>>
               THEN decoded[t][1].inner_ix_data = <<>>
               ELSE LET ixs == FlattenGroups(payload[1].inner[1])
                        bc == decoded[t][1].accounts[1].bonding_curve
                        got == decoded[t][1].inner_ix_data
                    IN  /\ got # <<>>
                        /\ TheValueOr0(got[1].amount, TokenAmountsOf(ixs, bc))
                        /\ TheValueOr0(got[1].sol, LamportsTo(ixs, bc))
                        /\ TheValueOr0(got[1].fee,
                                       LamportsTo(ixs, PUMP_FUN_FEE_RECIPIENT))

\* An event with the SOL transfer and the fee but no token transfer of
\* the bonding curve gave (0, sol, fee).
C27_Witness ==
    \E t \in Tasks :
        /\ ReachedInnerStage(t)
        /\ decoded[t][1].inner_ix_data # <<>>
        /\ decoded[t][1].inner_ix_data[1].amount = 0
        /\ decoded[t][1].inner_ix_data[1].sol = ObservedSol
        /\ decoded[t][1].inner_ix_data[1].fee = ObservedFee

RECURSIVE Pow256(_)
Pow256(n) == IF n = 0 THEN 1 ELSE 256 * Pow256(n - 1)

\* The little-endian value of bytes i..8 of the sequence b: the sum of
\* b[j] * 256^(j-1).
RECURSIVE LittleEndianFrom(_, _)
LittleEndianFrom(b, i) ==
    IF i > 8 THEN 0
    ELSE (IF b[i] = 0 THEN 0 ELSE b[i] * Pow256(i - 1))
         + LittleEndianFrom(b, i + 1)

\* What the claim says unpack_u64 returns for the byte sequence b.
ExpectedUnpack(b) ==
    IF Len(b) >= 8
       THEN <<[amount |-> LittleEndianFrom(b, 1),
               rest |-> [i \in 1..(Len(b) - 8) |-> b[i + 8]]]>>
       ELSE <<>>

\* The bytes after the opcode of the swap data the Raydium task decoded.
HasSwapBytes ==
    /\ payload # <<>>
    /\ payload[1].json
    /\ SwapOf(payload[1]) # <<>>
    /\ SwapOf(payload[1])[1].data.kind = "bytes"
    /\ SwapOf(payload[1])[1].data.bytes # <<>>
SwapBytes == Tail(SwapOf(payload[1])[1].data.bytes)

\* The two u64 fields of decoded swap data, in the order of the bytes.
FirstField(d) ==
    IF d.variant = "BaseIn" THEN d.amount_in ELSE d.max_amount_in
SecondField(d) ==
    IF d.variant = "BaseIn" THEN d.minimum_amount_out ELSE d.amount_out

\* C28: for a byte sequence of at least 8 bytes unpack_u64 returns the
\* little-endian value of the first 8 bytes and the remaining bytes
\* unchanged and in order, and for a shorter one it returns the error:
\* the two fields of the decoded swap data are the values of bytes 1-8
\* and 9-16 after the opcode, and data too short for either field gives
\* no instruction data.
C28_UnpackU64 ==
    \A t \in Tasks :
        (Venue(t) = "raydium" /\ HasSwapBytes) =>
            LET first == ExpectedUnpack(SwapBytes) IN
            /\ unpack_u64(SwapBytes) = first
            /\ first # <<>> =>
                  unpack_u64(first[1].rest) = ExpectedUnpack(first[1].rest)
            /\ (decoded[t] # <<>> /\ decoded[t][1].ix_data # <<>>) =>
                  /\ first # <<>>
                  /\ ExpectedUnpack(first[1].rest) # <<>>
                  /\ FirstField(decoded[t][1].ix_data[1]) = first[1].amount
                  /\ SecondField(decoded[t][1].ix_data[1])
                        = ExpectedUnpack(first[1].rest)[1].amount
            /\ (/\ decoded[t] # <<>>
                /\ decoded[t][1].accounts # <<>>
                /\ Len(SwapBytes) < 16) =>
                  decoded[t][1].ix_data = <<>>

\* Swap data with bytes left over after the two fields was decoded.
C28_Witness ==
    \E t \in Tasks :
        /\ Venue(t) = "raydium"
        /\ HasSwapBytes
        /\ Len(SwapBytes) > 16
        /\ decoded[t] # <<>>
        /\ decoded[t][1].ix_data # <<>>
        /\ SecondField(decoded[t][1].ix_data[1]) = ObservedAmount

\* ========================================================================
\* Properties of what is submitted
\* ========================================================================

C30_BuyOnlyFromUsablePrice ==
    \A t \in Tasks :
        (/\ Venue(t) = "pump_fun"
         /\ ~IsToolCall
         /\ order[t] # <<>>
         /\ order[t][1].kind = "pump_fun_buy") =>
            LET obs == decoded[t][1].inner_ix_data[1] IN
            /\ obs.sol > 0
            /\ obs.amount > 0
            /\ order[t][1].amount # U64_MAX
            /\ order[t][1].amount
                  = U64((params[1].max_sol_buy * obs.amount) \div obs.sol)

====
